---- MODULE Spec2Model ----
(***************************************************************************)
(* Scan orchestration and recursive discovery of the API attack-surface    *)
(* auditor: the asset store (db/assets.rs over the schema of db/mod.rs),   *)
(* the scan service (services/scan.rs), the background monitor             *)
(* (services/monitor.rs), the staged import (services/import.rs) and the   *)
(* false-positive toggle (commands/assets.rs).                             *)
(***************************************************************************)
EXTENDS Integers, Sequences, FiniteSets, TLC

VARIABLES
    assets,     \* the assets table: row id -> row
    history,    \* the scan_history table, in insertion order
    settings,   \* the settings table: value of recursive_discovery_enabled
    now,        \* the wall clock, in minutes
    monitor,    \* the poll loop: its position and its local recursive_enabled
    tasks,      \* spawned tasks (slots 1..MaxTasks) and the command in flight (slot 0)
    emitted,    \* asset ids for which "scan-update" was emitted
    last,       \* the last completed call and what it returned
    trip,       \* the false-positive round trip in progress
    probe,      \* scope guard inputs and decision
    limiter,    \* the shared rate limiter, its clock and the callers of wait()
    proxy       \* the capture relay: its flags, pending requests and connections

vars == <<assets, history, settings, now, monitor, tasks, emitted, last, trip, probe,
          limiter, proxy>>

(***************************************************************************)
(* Bounds of the model.                                                    *)
(***************************************************************************)
MaxTasks == 1       \* spawned tasks in flight at once
MaxHistory == 2     \* scan_history rows written before rescans stop
MaxClock == 6       \* minutes the wall clock runs for
MaxCallers == 2     \* tasks that call wait() on the rate limiter
MaxInstant == 5     \* ticks the limiter's monotonic clock runs for
MinInterval == 2    \* min_interval of the rate limiter, in ticks
MaxRows == 2        \* largest rowid given out where assets are deleted
MaxRequests == 2    \* connections the capture relay accepts
MaxWords == 2       \* words of a response body put to extract_urls
MaxParents == 2     \* scan tasks one poll tick may have in flight side by side
MaxArchive == 52    \* scan_history rows written before the repeated rescans stop

(***************************************************************************)
(* Strings: the str methods the code uses.                                 *)
(***************************************************************************)
Min(a, b) == IF a < b THEN a ELSE b

StartsWith(s, p) == Len(s) >= Len(p) /\ SubSeq(s, 1, Len(p)) = p

EndsWith(s, p) == Len(s) >= Len(p) /\ SubSeq(s, Len(s) - Len(p) + 1, Len(s)) = p

Contains(s, p) == \E i \in 1..(Len(s) - Len(p) + 1) : SubSeq(s, i, i + Len(p) - 1) = p

\* position of the first occurrence of p in s at or after from; 0 if none
Find(s, p, from) ==
    LET hits == {i \in from..(Len(s) - Len(p) + 1) : SubSeq(s, i, i + Len(p) - 1) = p}
    IN  IF hits = {} THEN 0 ELSE CHOOSE i \in hits : \A j \in hits : i <= j

\* the lower-case letter of each upper-case ASCII letter
LowerOf ==
    ("A" :> "a") @@ ("B" :> "b") @@ ("C" :> "c") @@ ("D" :> "d") @@ ("E" :> "e") @@
    ("F" :> "f") @@ ("G" :> "g") @@ ("H" :> "h") @@ ("I" :> "i") @@ ("J" :> "j") @@
    ("K" :> "k") @@ ("L" :> "l") @@ ("M" :> "m") @@ ("N" :> "n") @@ ("O" :> "o") @@
    ("P" :> "p") @@ ("Q" :> "q") @@ ("R" :> "r") @@ ("S" :> "s") @@ ("T" :> "t") @@
    ("U" :> "u") @@ ("V" :> "v") @@ ("W" :> "w") @@ ("X" :> "x") @@ ("Y" :> "y") @@
    ("Z" :> "z")

LowerChar(c) == IF c \in DOMAIN LowerOf THEN LowerOf[c] ELSE c

RECURSIVE to_lowercase(_)
to_lowercase(s) ==
    IF Len(s) = 0 THEN s
    ELSE LowerChar(SubSeq(s, 1, 1)) \o to_lowercase(SubSeq(s, 2, Len(s)))

(***************************************************************************)
(* url::Url::parse, as far as the code uses it: the host of an absolute    *)
(* http(s) URL, lower-cased; NoHost when the string does not parse.        *)
(***************************************************************************)
NoHost == "<none>"

SchemeLen(u) ==
    IF StartsWith(u, "https://") THEN 8
    ELSE IF StartsWith(u, "http://") THEN 7
    ELSE 0

host_str(u) ==
    IF SchemeLen(u) = 0 THEN NoHost
    ELSE LET rest  == SubSeq(u, SchemeLen(u) + 1, Len(u))
             slash == Find(rest, "/", 1)
             h     == IF slash = 0 THEN rest ELSE SubSeq(rest, 1, slash - 1)
         IN  IF Len(h) = 0 THEN NoHost ELSE to_lowercase(h)

\* url::Url::parse(u) is Err: an http(s) URL with an empty host, or a string
\* with no scheme in front of a colon (a relative URL without a base)
parse_fails(u) ==
    IF SchemeLen(u) # 0 THEN host_str(u) = NoHost
    ELSE LET colon == Find(u, ":", 1)
             slash == Find(u, "/", 1)
         IN  colon <= 1 \/ (slash # 0 /\ slash < colon)

\* the origin (scheme and host) of a parsed URL
Origin(u) ==
    LET rest  == SubSeq(u, SchemeLen(u) + 1, Len(u))
        slash == Find(rest, "/", 1)
    IN  IF slash = 0 THEN u ELSE SubSeq(u, 1, SchemeLen(u) + slash - 1)

(***************************************************************************)
(* Rows of the assets table (db/mod.rs init_tables, db/assets.rs).         *)
(***************************************************************************)
NoMethod == "<None>"
NoRow == [id |-> 0]
NoEvidence == "<None>"
NoReason == "<None>"

Ok(v) == [ok |-> TRUE, value |-> v]
Err(e) == [ok |-> FALSE, error |-> e]

Max(S) == CHOOSE m \in S : \A x \in S : x <= m

\* id INTEGER PRIMARY KEY: a new row gets the largest rowid in use plus one
NextRowId(A) == IF DOMAIN A = {} THEN 1 ELSE Max(DOMAIN A) + 1

\* the row INSERT OR IGNORE creates, with the column defaults of the schema
NewRow(url, method_val, source, recursive, is_workbench, depth, t) ==
    [url |-> url, method |-> method_val, status |-> "Pending", status_code |-> 0,
     risk_score |-> 0, findings |-> <<>>, response_headers |-> "",
     response_body |-> "", source |-> source, recursive |-> recursive,
     is_workbench |-> is_workbench, depth |-> depth,
     triage_status |-> "Unreviewed", notes |-> "",
     created_at |-> t, updated_at |-> t]

\* INSERT OR IGNORE under the constraint url TEXT NOT NULL UNIQUE
\* INSERT OR REPLACE: the row that holds the url goes and a fresh one comes
InsertOrReplace(A, row) ==
    LET kept == {i \in DOMAIN A : A[i].url # row.url}
        B    == [i \in kept |-> A[i]]
    IN  B @@ (NextRowId(B) :> row)

InsertOrIgnore(A, row) ==
    IF \E i \in DOMAIN A : A[i].url = row.url
    THEN A
    ELSE A @@ (NextRowId(A) :> row)

\* SELECT ... WHERE url = ?1 AND method = ?2
RowsOf(A, url, method_val) ==
    {i \in DOMAIN A : A[i].url = url /\ A[i].method = method_val}

\* the flag overwritten with the argument
RecursiveAssigned(recursive, current_recursive) == recursive

\* if recursive && !current_recursive { SET recursive = 1 }
RecursiveAfterAdd(recursive, current_recursive) ==
    IF recursive /\ ~current_recursive THEN TRUE ELSE current_recursive

\* a source that is rewritten only on a row that discovery created
SourceUpgradedOnly(source, current_source) ==
    IF source # "Recursive" /\ current_source = "Recursive" THEN source ELSE current_source

\* the source overwritten whenever it differs
SourceOverwritten(source, current_source) ==
    IF source # current_source THEN source ELSE current_source

\* if source != "Recursive" && source != current_source { SET source = ?1 }
SourceAfterAdd(source, current_source) ==
    IF source # "Recursive" /\ source # current_source THEN source ELSE current_source

\* if is_workbench { SET is_workbench = 1 }
WorkbenchAfterAdd(is_workbench, current) ==
    IF is_workbench THEN TRUE ELSE current

MethodVal(method) == IF method = NoMethod THEN "GET" ELSE method

\* SqliteDatabase::add_asset: the table after the call and the Result<i64>
add_asset(A, url, source, method, recursive, is_workbench, depth, t) ==
    LET method_val == MethodVal(method)
        B     == InsertOrIgnore(A, NewRow(url, method_val, source, recursive,
                                          is_workbench, depth, t))
        found == RowsOf(B, url, method_val)
    IN  IF found = {}
        THEN [assets |-> B, ret |-> Err("QueryReturnedNoRows")]
        ELSE LET id  == CHOOSE i \in found : TRUE
                 cur == B[id]
                 row == [cur EXCEPT
                           !.recursive = RecursiveAfterAdd(recursive, cur.recursive),
                           !.source = SourceAfterAdd(source, cur.source),
                           !.is_workbench = WorkbenchAfterAdd(is_workbench, cur.is_workbench)]
             IN  [assets |-> [B EXCEPT ![id] = row], ret |-> Ok(id)]

\* the row of (url, method) with its id, or NoRow
RowOf(A, url, method_val) ==
    IF RowsOf(A, url, method_val) = {} THEN NoRow
    ELSE LET id == CHOOSE i \in RowsOf(A, url, method_val) : TRUE
         IN  [id |-> id, row |-> A[id]]

(***************************************************************************)
(* Risk aggregation and status derivation (services/scan.rs,               *)
(* db/assets.rs recalculate_asset_risk_score).                             *)
(***************************************************************************)
Weight(severity) ==
    CASE severity = "Critical" -> 100
      [] severity = "High" -> 50
      [] severity = "Medium" -> 25
      [] severity = "Low" -> 10
      [] severity = "Info" -> 0

\* Badge::new leaves is_fp false and fp_reason None
Badge(short, severity, evidence) ==
    [short |-> short, severity |-> severity, evidence |-> evidence,
     is_fp |-> FALSE, fp_reason |-> NoReason]

RECURSIVE SumWeights(_)
SumWeights(badges) ==
    IF badges = <<>> THEN 0
    ELSE Weight(Head(badges).severity) + SumWeights(Tail(badges))

\* for b in &badges { risk_score += weight } after a scan: every badge counts
ScanRiskScore(badges) == SumWeights(badges)

\* a rescoring that counts the findings marked false positive too
RecalcCountsMarked(findings) == SumWeights(findings)

\* for f in &findings { if f.is_fp { continue } risk_score += weight }
RecalcRiskScore(findings) ==
    SumWeights(SelectSeq(findings, LAMBDA f : ~f.is_fp))

\* a mapping that knows two statuses only
StatusOfTwo(risk_score) == IF risk_score >= 100 THEN "Critical" ELSE "Safe"

\* let final_status = if risk_score >= 100 { "Critical" } else if ...
final_status(risk_score) ==
    IF risk_score >= 100 THEN "Critical"
    ELSE IF risk_score >= 50 THEN "Warning"
    ELSE IF risk_score > 0 THEN "Suspicious"
    ELSE "Safe"

(***************************************************************************)
(* ScanService::extract_urls.  A body is text whose words are separated by *)
(* single spaces; the pattern matches a word that starts with http(s)://   *)
(* whole, and any other word from its first slash on.                      *)
(***************************************************************************)
RECURSIVE Words(_)
Words(body) ==
    IF Len(body) = 0 THEN <<>>
    ELSE LET sp == Find(body, " ", 1)
         IN  IF sp = 0 THEN <<body>>
             ELSE IF sp = 1 THEN Words(SubSeq(body, 2, Len(body)))
             ELSE <<SubSeq(body, 1, sp - 1)>> \o Words(SubSeq(body, sp + 1, Len(body)))

NoMatch == ""

\* the text URL_REGEX finds in one word
RegexMatch(word) ==
    IF SchemeLen(word) > 0 /\ Len(word) > SchemeLen(word) THEN word
    ELSE LET slash == Find(word, "/", 1)
         IN  IF slash = 0 \/ slash = Len(word) THEN NoMatch
             ELSE SubSeq(word, slash, Len(word))

noise_extensions ==
    {".png", ".jpg", ".jpeg", ".gif", ".svg", ".ico", ".woff", ".woff2", ".ttf",
     ".otf", ".eot", ".css", ".map", ".mp4", ".webm", ".webp"}

\* a filter that compares the extensions without lower-casing the match
IsNoiseAsWritten(raw) == \E ext \in noise_extensions : EndsWith(raw, ext)

IsNoise(raw) ==
    LET lower_raw == to_lowercase(raw)
    IN  \E ext \in noise_extensions : EndsWith(lower_raw, ext)

\* Url::to_string of a parsed absolute URL: lower-cased host, "/" for an empty path
UrlToString(u) ==
    LET rest  == SubSeq(u, SchemeLen(u) + 1, Len(u))
        slash == Find(rest, "/", 1)
        path  == IF slash = 0 THEN "/" ELSE SubSeq(rest, slash, Len(rest))
    IN  SubSeq(u, 1, SchemeLen(u)) \o host_str(u) \o path

\* base.join(raw) for raw starting with a slash
Join(base, raw) ==
    IF StartsWith(raw, "//")
    THEN UrlToString(SubSeq(base, 1, SchemeLen(base) - 2) \o raw)
    ELSE UrlToString(Origin(base) \o raw)

\* the URL one match contributes, or NoMatch
Resolve(raw, base) ==
    IF raw = NoMatch \/ IsNoise(raw) THEN NoMatch
    ELSE LET full == IF StartsWith(raw, "/") THEN Join(base, raw) ELSE UrlToString(raw)
         IN  IF host_str(full) # NoHost /\ host_str(full) = host_str(base)
             THEN full ELSE NoMatch

\* byte order of the characters that occur in URLs
Alphabet == "-./0123456789:ABCDEFGHIJKLMNOPQRSTUVWXYZ_abcdefghijklmnopqrstuvwxyz"

RECURSIVE StrLess(_, _)
StrLess(a, b) ==
    IF Len(b) = 0 THEN FALSE
    ELSE IF Len(a) = 0 THEN TRUE
    ELSE LET ca == Find(Alphabet, SubSeq(a, 1, 1), 1)
             cb == Find(Alphabet, SubSeq(b, 1, 1), 1)
         IN  IF ca # cb THEN ca < cb
             ELSE StrLess(SubSeq(a, 2, Len(a)), SubSeq(b, 2, Len(b)))

\* urls.sort(); urls.dedup()
RECURSIVE SortedSeq(_)
SortedSeq(S) ==
    IF S = {} THEN <<>>
    ELSE LET m == CHOOSE x \in S : \A y \in S \ {x} : StrLess(x, y)
         IN  <<m>> \o SortedSeq(S \ {m})

extract_urls(body, base_url) ==
    IF host_str(base_url) = NoHost THEN <<>>
    ELSE LET words == Words(body)
             found == {Resolve(RegexMatch(words[i]), base_url) : i \in 1..Len(words)}
         IN  SortedSeq(found \ {NoMatch})

(***************************************************************************)
(* ScanService::scan_url.  The network and the detection engine are the    *)
(* environment: an outcome is a transport failure, or a response with the  *)
(* badges analyze returns for it.                                          *)
(***************************************************************************)
TransportFailure == [kind |-> "fail"]
Response(code, badges, body) ==
    [kind |-> "ok", status_code |-> code, badges |-> badges, body |-> body]

\* a failed request reported as a clean response
ReportedSafe ==
    [status |-> "Safe", status_code |-> 0, risk_score |-> 0,
     findings |-> <<>>, response_headers |-> "Error: transport",
     response_body |-> "", discovered_urls |-> <<>>]

\* Err(e) => return ScanResult { status: "Connection Failed", ... }
ConnectionFailed ==
    [status |-> "Connection Failed", status_code |-> 0, risk_score |-> 0,
     findings |-> <<>>, response_headers |-> "Error: transport",
     response_body |-> "", discovered_urls |-> <<>>]

scan_url(url, method, outcome) ==
    IF outcome.kind = "fail"
    THEN ConnectionFailed
    ELSE LET risk_score == ScanRiskScore(outcome.badges)
         IN  [status |-> final_status(risk_score),
              status_code |-> outcome.status_code,
              risk_score |-> risk_score,
              findings |-> outcome.badges,
              response_headers |-> "content-type: text/html",
              response_body |-> outcome.body,
              discovered_urls |-> extract_urls(outcome.body, url)]

(***************************************************************************)
(* Store operations of the scan path (db/assets.rs).  Each runs under one  *)
(* hold of the connection mutex, so each is one atomic step.               *)
(***************************************************************************)
\* an archive test that holds of every prior state
ArchivesAlways(old_code, old_body) == TRUE

\* if old_code != 0 || !old_body.is_empty()
ShouldArchive(old_code, old_body) == old_code # 0 \/ Len(old_body) # 0

\* a snapshot that keeps the findings without their false-positive marks
HistoryEntryUnmarked(id, row, t) ==
    [asset_id |-> id, timestamp |-> t, status_code |-> row.status_code,
     risk_score |-> row.risk_score,
     findings |-> [k \in DOMAIN row.findings |->
                      [row.findings[k] EXCEPT !.is_fp = FALSE, !.fp_reason = NoReason]],
     response_headers |-> row.response_headers,
     response_body |-> row.response_body]

HistoryEntry(id, row, t) ==
    [asset_id |-> id, timestamp |-> t, status_code |-> row.status_code,
     risk_score |-> row.risk_score, findings |-> row.findings,
     response_headers |-> row.response_headers,
     response_body |-> row.response_body]

\* a call that returns Ok and writes nothing
ScanResultDropped(A, H, id, r, t) == [assets |-> A, history |-> H, ret |-> Ok(0)]

\* SqliteDatabase::update_scan_result: the two tables after the call
update_scan_result(A, H, id, r, t) ==
    LET H1 == IF id \in DOMAIN A /\ ShouldArchive(A[id].status_code, A[id].response_body)
              THEN Append(H, HistoryEntry(id, A[id], t))
              ELSE H
        A1 == IF id \in DOMAIN A
              THEN [A EXCEPT ![id] = [@ EXCEPT
                        !.status = r.status,
                        !.status_code = r.status_code,
                        !.risk_score = r.risk_score,
                        !.findings = r.findings,
                        !.response_headers = r.response_headers,
                        !.response_body = r.response_body,
                        !.updated_at = t]]
              ELSE A
    IN  [assets |-> A1, history |-> H1, ret |-> Ok(0)]

\* the rows of scan_history left when the rows of the assets in gone are
\* removed with them (FOREIGN KEY ... ON DELETE CASCADE); rows keep their order
Cascade(H, gone) == SelectSeq(H, LAMBDA h : h.asset_id \notin gone)

\* SqliteDatabase::delete_asset: DELETE FROM assets WHERE id = ?1.  The
\* cascade runs when the connection enforces foreign keys, which the build
\* of the SQLite library decides.
delete_asset(A, H, id, foreign_keys) ==
    [assets |-> [i \in DOMAIN A \ {id} |-> A[i]],
     history |-> IF foreign_keys /\ id \in DOMAIN A THEN Cascade(H, {id}) ELSE H,
     ret |-> Ok(0)]

\* SqliteDatabase::clear_all_assets: DELETE FROM assets
clear_all_assets(A, H, foreign_keys) ==
    [assets |-> <<>>,
     history |-> IF foreign_keys THEN Cascade(H, DOMAIN A) ELSE H,
     ret |-> Ok(0)]

\* SqliteDatabase::update_asset_source: UPDATE assets SET source = ?1,
\* updated_at = CURRENT_TIMESTAMP WHERE id = ?2
update_asset_source(A, id, new_source, t) ==
    [assets |-> IF id \in DOMAIN A
                THEN [A EXCEPT ![id] = [@ EXCEPT !.source = new_source, !.updated_at = t]]
                ELSE A,
     ret |-> Ok(0)]

\* the n-th largest id of S
Ranked(S, n) == CHOOSE k \in S : Cardinality({j \in S : j > k}) = n - 1

\* LIMIT 50
HistoryLimit == 50

\* a query that returns the oldest rows of the asset first
OldestFirst(H, asset_id) ==
    LET rows == {k \in DOMAIN H : H[k].asset_id = asset_id}
        kept == {k \in rows : Cardinality({j \in rows : j < k}) < HistoryLimit}
    IN  [n \in 1..Cardinality(kept) |->
            [id |-> Ranked(kept, Cardinality(kept) + 1 - n)]
                @@ H[Ranked(kept, Cardinality(kept) + 1 - n)]]

\* SqliteDatabase::get_asset_history: SELECT ... FROM scan_history
\* WHERE asset_id = ?1 ORDER BY id DESC LIMIT 50; the id of a row is its
\* position in the table
get_asset_history(H, asset_id) ==
    LET rows == {k \in DOMAIN H : H[k].asset_id = asset_id}
        kept == {k \in rows : Cardinality({j \in rows : j > k}) < HistoryLimit}
    IN  [n \in 1..Cardinality(kept) |-> [id |-> Ranked(kept, n)] @@ H[Ranked(kept, n)]]

\* SqliteDatabase::update_asset_triage: UPDATE assets SET triage_status = ?1,
\* notes = ?2, updated_at = CURRENT_TIMESTAMP WHERE id = ?3
update_asset_triage(A, id, triage_status, notes, t) ==
    IF id \in DOMAIN A
    THEN [assets |-> [A EXCEPT ![id] = [@ EXCEPT !.triage_status = triage_status,
                                                 !.notes = notes,
                                                 !.updated_at = t]],
          ret |-> Ok(0)]
    ELSE [assets |-> A, ret |-> Ok(0)]

Matches(f, short_name, evidence) == f.short = short_name /\ f.evidence = evidence

\* SqliteDatabase::update_finding_fp
update_finding_fp(A, asset_id, short_name, evidence, is_fp, reason, t) ==
    IF asset_id \notin DOMAIN A
    THEN [assets |-> A, ret |-> Err("QueryReturnedNoRows")]
    ELSE LET findings == A[asset_id].findings
             updated  == \E i \in 1..Len(findings) : Matches(findings[i], short_name, evidence)
             flagged  == [i \in 1..Len(findings) |->
                            IF Matches(findings[i], short_name, evidence)
                            THEN [findings[i] EXCEPT !.is_fp = is_fp, !.fp_reason = reason]
                            ELSE findings[i]]
         IN  IF ~updated
             THEN [assets |-> A, ret |-> Err("NotFound")]
             ELSE [assets |-> [A EXCEPT ![asset_id] =
                                  [@ EXCEPT !.findings = flagged, !.updated_at = t]],
                   ret |-> Ok(0)]

\* SqliteDatabase::recalculate_asset_risk_score
recalculate_asset_risk_score(A, asset_id, t) ==
    IF asset_id \notin DOMAIN A
    THEN [assets |-> A, ret |-> Err("QueryReturnedNoRows")]
    ELSE LET risk_score == RecalcRiskScore(A[asset_id].findings)
         IN  [assets |-> [A EXCEPT ![asset_id] =
                              [@ EXCEPT !.risk_score = risk_score,
                                        !.status = final_status(risk_score),
                                        !.updated_at = t]],
              ret |-> Ok(0)]

\* the host one stored url contributes to the authorized set
DomainOf(u) ==
    IF host_str(u) # NoHost THEN {host_str(u)}
    ELSE IF Contains(u, "/")
         THEN {SubSeq(u, 1, Find(u, "/", 1) - 1)}
         ELSE {}

\* a query that draws the domains from every row, whatever its source
DomainsOfEveryRow(A) == UNION {DomainOf(A[i].url) : i \in DOMAIN A}

\* SqliteDatabase::get_authorized_domains
get_authorized_domains(A) ==
    UNION {DomainOf(A[i].url) : i \in {j \in DOMAIN A : A[j].source # "Recursive"}}

\* SqliteDatabase::get_pending_scans: WHERE status = 'Pending'
\* ORDER BY created_at ASC LIMIT ?1, rows of one timestamp in rowid order
BatchLimit == 10

Older(A, i, j) ==
    \/ A[i].created_at < A[j].created_at
    \/ A[i].created_at = A[j].created_at /\ i < j

get_pending_scans(A, limit) ==
    LET pending == {i \in DOMAIN A : A[i].status = "Pending"}
    IN  {i \in pending : Cardinality({j \in pending : Older(A, j, i)}) < limit}

\* SqliteDatabase::get_stale_assets: WHERE datetime(updated_at, '+N minutes')
\* < datetime('now') OR status = 'Pending' ORDER BY updated_at ASC LIMIT ?2
StaleFirst(A, i, j) ==
    \/ A[i].updated_at < A[j].updated_at
    \/ A[i].updated_at = A[j].updated_at /\ i < j

get_stale_assets(A, limit, minutes_stale, t) ==
    LET eligible == {i \in DOMAIN A :
                        A[i].updated_at + minutes_stale < t \/ A[i].status = "Pending"}
    IN  {i \in eligible : Cardinality({j \in eligible : StaleFirst(A, j, i)}) < limit}

\* the staleness window, in minutes
StaleMinutes == 5

\* the import cache window, in minutes
CacheMinutes == 10

\* SqliteDatabase::is_asset_recently_scanned
is_asset_recently_scanned(A, url, method, minutes, t) ==
    \E i \in RowsOf(A, url, method) :
        /\ A[i].status # "Pending"
        /\ A[i].updated_at + minutes > t

(***************************************************************************)
(* The scope decision of recursive discovery (services/monitor.rs 78-137,  *)
(* services/import.rs 175-208).                                            *)
(***************************************************************************)
blacklist ==
    {"twitter.com", "x.com", "facebook.com", "instagram.com", "linkedin.com",
     "youtube.com", "wikipedia.org", "github.com", "apple.com", "google.com",
     "microsoft.com", "cdn.prod.website-files.com"}

\* a deny-list test that sees only a host equal to an entry
BlacklistedOnEquality(host) == to_lowercase(host) \in blacklist

\* blacklist.iter().any(|&d| host.to_lowercase().contains(d))
is_blacklisted(host) ==
    LET lower == to_lowercase(host)
    IN  \E d \in blacklist : Contains(lower, d)

\* authorized_domains.iter().any(|d| host == d || host.ends_with(&format!(".{}", d)))
is_authorized(host, authorized_domains) ==
    \E d \in authorized_domains : host = d \/ EndsWith(host, "." \o d)

\* if !is_blacklisted && is_authorized { add_asset(...) }
Admits(host, authorized_domains) ==
    ~is_blacklisted(host) /\ is_authorized(host, authorized_domains)

\* the rows purge_recursive_assets selects for deletion, whatever their source
Uncovered(A, authorized_domains) ==
    {i \in DOMAIN A :
        IF parse_fails(A[i].url) THEN TRUE
        ELSE /\ host_str(A[i].url) # NoHost
             /\ ~is_authorized(host_str(A[i].url), authorized_domains)}

\* a purge whose SELECT has no WHERE source = 'Recursive'
ids_of_any_source(A, authorized_domains) == Uncovered(A, authorized_domains)

\* SqliteDatabase::purge_recursive_assets, the SELECT id, url FROM assets
\* WHERE source = 'Recursive' and the loop that fills ids_to_delete
ids_to_delete(A, authorized_domains) ==
    {i \in Uncovered(A, authorized_domains) : A[i].source = "Recursive"}

\* SqliteDatabase::purge_recursive_assets from its second lock on: the
\* DELETE FROM assets WHERE id = ?1 of every selected id, Ok(count)
purge_recursive_assets(A, H, authorized_domains, foreign_keys) ==
    LET ids == ids_to_delete(A, authorized_domains)
    IN  [assets |-> [i \in DOMAIN A \ ids |-> A[i]],
         history |-> IF foreign_keys THEN Cascade(H, ids) ELSE H,
         ret |-> Ok(Cardinality(ids))]

\* Depth control: recursive = asset.depth < 3 for the child of the monitor
DepthLimit == 3
ChildRecursive(depth) == depth < DepthLimit
ChildDepth(depth) == depth + 1

(***************************************************************************)
(* RateLimiter (core/rate_limiter.rs).  Time is the monotonic clock in     *)
(* ticks; code between two awaits takes no time, and any time may pass at  *)
(* an await.  The guard of last_request_time is held from lock().await to  *)
(* the return of wait(), across the sleep.                                 *)
(***************************************************************************)
Callers == 1..MaxCallers

NoCaller == 0

NoInstant == 0 - MinInterval - 1

\* ProxyService::new.  pending_requests maps a request id to the sender of
\* the connection that waits for it; connections holds the frame of every
\* handle_proxy_connection task, rx being what its receiver was sent.
ProxyService ==
    [intercept_enabled |-> FALSE,
     pending_requests |-> <<>>,
     connections |-> <<>>]

NoRequest == 0

\* RateLimiter::new: last_request_time = Instant::now() - min_interval
RateLimiter ==
    [clock |-> 0,
     last_request_time |-> 0 - MinInterval,
     holder |-> NoCaller,
     caller |-> [c \in Callers |-> [pc |-> "idle"]],
     returned |-> <<NoInstant, NoInstant>>]

\* the instants of the last two returns of wait(), the newest second
Returned(l, instant) == <<l.returned[2], instant>>

\* a mutex that grants the guard whoever holds it
GuardGranted(l) == TRUE

\* self.last_request_time.lock().await completes when no guard is out
GuardFree(l) == l.holder = NoCaller

\* a task calls wait() and asks for the lock
WaitCall(c) ==
    /\ limiter.caller[c].pc = "idle"
    /\ limiter' = [limiter EXCEPT !.caller[c] = [pc |-> "lock"]]
    /\ UNCHANGED <<assets, history, settings, now, monitor, tasks, emitted, last, trip,
                   probe, proxy>>

\* the lock is granted; now.duration_since(*last_time) decides between the
\* sleep and the immediate return
WaitLocked(c) ==
    LET instant == limiter.clock
        elapsed == instant - limiter.last_request_time
    IN  /\ limiter.caller[c].pc = "lock"
        /\ GuardFree(limiter)
        /\ IF elapsed < MinInterval
           THEN limiter' = [limiter EXCEPT
                               !.holder = c,
                               !.caller[c] = [pc |-> "sleep",
                                              deadline |-> instant + (MinInterval - elapsed)]]
           ELSE limiter' = [limiter EXCEPT
                               !.last_request_time = instant,
                               !.caller[c] = [pc |-> "idle"],
                               !.returned = Returned(limiter, instant)]
        /\ UNCHANGED <<assets, history, settings, now, monitor, tasks, emitted, last, trip,
                       probe, proxy>>

\* sleep(wait_duration).await completes at or after its deadline;
\* *last_time = Instant::now(), and the guard drops with the return
WaitWoken(c) ==
    /\ limiter.caller[c].pc = "sleep"
    /\ limiter.clock >= limiter.caller[c].deadline
    /\ limiter' = [limiter EXCEPT
                       !.last_request_time = limiter.clock,
                       !.holder = IF @ = c THEN NoCaller ELSE @,
                       !.caller[c] = [pc |-> "idle"],
                       !.returned = Returned(limiter, limiter.clock)]
    /\ UNCHANGED <<assets, history, settings, now, monitor, tasks, emitted, last, trip,
                   probe, proxy>>

\* the monotonic clock advances
ClockTick ==
    /\ limiter.clock < MaxInstant
    /\ limiter' = [limiter EXCEPT !.clock = @ + 1]
    /\ UNCHANGED <<assets, history, settings, now, monitor, tasks, emitted, last, trip,
                   probe, proxy>>

NextLimiter ==
    \/ \E c \in Callers : WaitCall(c)
    \/ \E c \in Callers : WaitLocked(c)
    \/ \E c \in Callers : WaitWoken(c)
    \/ ClockTick

(***************************************************************************)
(* State after construction: empty tables, no setting, the poll loop       *)
(* asleep, nothing spawned.                                                *)
(***************************************************************************)
NoSetting == "<None>"

Init ==
    /\ assets = <<>>
    /\ history = <<>>
    /\ settings = NoSetting
    /\ now = 0
    /\ monitor = [pc |-> "sleep", recursive_enabled |-> FALSE]
    /\ tasks = <<>>
    /\ emitted = {}
    /\ last = [op |-> "init"]
    /\ trip = [stage |-> 0]
    /\ probe = [stage |-> "idle"]
    /\ limiter = RateLimiter
    /\ proxy = ProxyService

Methods == {NoMethod, "GET", "POST"}

\* a step that makes no call the properties below are about
Quiet == [op |-> "none"]

\* what a completed add_asset call is remembered by
AddCall(caller, url, source, method, recursive, is_workbench, depth, res) ==
    [op |-> "add_asset", caller |-> caller, url |-> url, source |-> source,
     method_val |-> MethodVal(method), recursive |-> recursive,
     is_workbench |-> is_workbench, depth |-> depth,
     before |-> assets, ret |-> res.ret]

(***************************************************************************)
(* Feeders that only insert: the add_asset command, the capture relay,     *)
(* the discovery push.                                                     *)
(***************************************************************************)
FeedAsset(url, source, method, recursive, is_workbench) ==
    LET res == add_asset(assets, url, source, method, recursive, is_workbench, 0, now)
    IN  /\ assets' = res.assets
        /\ last' = AddCall("feeder", url, source, method, recursive, is_workbench, 0, res)
        /\ UNCHANGED <<history, settings, now, monitor, tasks, emitted, trip, probe, proxy, limiter>>

(***************************************************************************)
(* Spawned tasks.  A frame holds what the closure captured and where it    *)
(* is; a new task takes the lowest free slot.                              *)
(***************************************************************************)
FreeSlots == (1..MaxTasks) \ DOMAIN tasks

LowestFree(T) == CHOOSE k \in (1..MaxTasks) \ DOMAIN T : \A j \in (1..MaxTasks) \ DOMAIN T : k <= j

Spawn(T, frame) == T @@ (LowestFree(T) :> frame)

RECURSIVE SpawnAll(_, _)
SpawnAll(T, frames) ==
    IF frames = <<>> THEN T
    ELSE SpawnAll(Spawn(T, Head(frames)), Tail(frames))

Finish(T, t) == [k \in DOMAIN T \ {t} |-> T[k]]

\* ids in the order get_pending_scans returns them
RECURSIVE InFetchOrder(_, _)
InFetchOrder(A, ids) ==
    IF ids = {} THEN <<>>
    ELSE LET first == CHOOSE i \in ids : \A j \in ids \ {i} : Older(A, i, j)
         IN  <<first>> \o InFetchOrder(A, ids \ {first})

\* what a completed update_scan_result call is remembered by
ScanCall(caller, t, id, outcome, r) ==
    [op |-> "update_scan_result", caller |-> caller, task |-> t, id |-> id,
     outcome |-> outcome.kind, result |-> r, before |-> assets, hbefore |-> history]

\* what a discovery decision is remembered by
Decision(caller, frame, url) ==
    [parent |-> frame.id, parent_depth |-> frame.depth, host |-> host_str(url),
     authorized |-> frame.authorized_domains, seed |-> frame.seed]

\* any write to a row other than by the round trip itself abandons the trip
TripAfterWrite(id) ==
    IF trip.stage # 0 /\ trip.id = id THEN [stage |-> 0] ELSE trip

(***************************************************************************)
(* Operator settings, and the passing of time.                             *)
(***************************************************************************)
SetSetting(value) ==
    /\ settings' = value
    /\ last' = Quiet
    /\ UNCHANGED <<assets, history, now, monitor, tasks, emitted, trip, probe, proxy, limiter>>

\* the stretches of time, in minutes, that pass between two steps
ElapseSteps == {6}

Elapse(minutes) ==
    /\ now + minutes <= MaxClock
    /\ now' = now + minutes
    /\ last' = Quiet
    /\ UNCHANGED <<assets, history, settings, monitor, tasks, emitted, trip, probe, proxy, limiter>>

(***************************************************************************)
(* start_background_monitor: the poll loop.                                *)
(***************************************************************************)
\* let recursive_enabled = match db.get_setting(...) { Ok(Some(val)) => val == "true", _ => false }
MonitorWake ==
    /\ monitor.pc = "sleep"
    /\ monitor' = [pc |-> "fetch", recursive_enabled |-> (settings = "true")]
    /\ last' = Quiet
    /\ UNCHANGED <<assets, history, settings, now, tasks, emitted, trip, probe, proxy, limiter>>

MonitorFrame(A, id, recursive_enabled) ==
    [kind |-> "monitor", pc |-> "scan", id |-> id, url |-> A[id].url,
     method |-> A[id].method, source |-> A[id].source,
     recursive |-> A[id].recursive, depth |-> A[id].depth,
     recursive_enabled |-> recursive_enabled]

\* match db.get_pending_scans(10) { Ok(pending_assets) => for asset in ... spawn }
MonitorFetch ==
    LET pending == get_pending_scans(assets, BatchLimit)
        order   == InFetchOrder(assets, pending)
        frames  == [k \in 1..Len(order) |->
                       MonitorFrame(assets, order[k], monitor.recursive_enabled)]
    IN  /\ monitor.pc = "fetch"
        /\ Cardinality(pending) <= Cardinality(FreeSlots)
        /\ tasks' = SpawnAll(tasks, frames)
        /\ monitor' = [monitor EXCEPT !.pc = "sleep"]
        /\ last' = Quiet
        /\ UNCHANGED <<assets, history, settings, now, emitted, trip, probe, proxy, limiter>>

\* the same tick with room for MaxParents tasks side by side
LowestFreeParent(T) ==
    CHOOSE k \in (1..MaxParents) \ DOMAIN T : \A j \in (1..MaxParents) \ DOMAIN T : k <= j

RECURSIVE SpawnParents(_, _)
SpawnParents(T, frames) ==
    IF frames = <<>> THEN T
    ELSE SpawnParents(T @@ (LowestFreeParent(T) :> Head(frames)), Tail(frames))

MonitorFetchParents ==
    LET pending == get_pending_scans(assets, BatchLimit)
        order   == InFetchOrder(assets, pending)
        frames  == [k \in 1..Len(order) |->
                       MonitorFrame(assets, order[k], monitor.recursive_enabled)]
    IN  /\ monitor.pc = "fetch"
        /\ Cardinality(pending) <= Cardinality((1..MaxParents) \ DOMAIN tasks)
        /\ tasks' = SpawnParents(tasks, frames)
        /\ monitor' = [monitor EXCEPT !.pc = "sleep"]
        /\ last' = Quiet
        /\ UNCHANGED <<assets, history, settings, now, emitted, trip, probe, proxy, limiter>>

\* let should_recurse = asset.recursive && source != "Workbench"
should_recurse(frame) == frame.recursive /\ frame.source # "Workbench"

\* if !recursive_enabled && source == "Recursive" { return; }
ReturnsEarly(frame) == ~frame.recursive_enabled /\ frame.source = "Recursive"

\* what the task closure captured of the asset and of the tick
MonitorSeed(frame) ==
    [source |-> frame.source, recursive |-> frame.recursive,
     recursive_enabled |-> frame.recursive_enabled]

\* the scan task: scan_url, update_scan_result, then the recursion test
MonitorScan(t, outcome) ==
    LET f   == tasks[t]
        r   == scan_url(f.url, f.method, outcome)
        res == update_scan_result(assets, history, f.id, r, now)
    IN  /\ t \in DOMAIN tasks
        /\ f.kind = "monitor" /\ f.pc = "scan"
        /\ assets' = res.assets
        /\ history' = res.history
        /\ last' = ScanCall("monitor", t, f.id, outcome, r) @@ [seed |-> MonitorSeed(f)]
        /\ trip' = TripAfterWrite(f.id)
        /\ IF should_recurse(f)
           THEN IF ReturnsEarly(f)
                THEN tasks' = Finish(tasks, t) /\ emitted' = emitted
                ELSE /\ tasks' = [tasks EXCEPT ![t] =
                                    [kind |-> "monitor", pc |-> "domains", id |-> f.id,
                                     depth |-> f.depth, seed |-> MonitorSeed(f),
                                     discovered_urls |-> r.discovered_urls]]
                     /\ emitted' = emitted
           ELSE tasks' = Finish(tasks, t) /\ emitted' = emitted \cup {f.id}
        /\ UNCHANGED <<settings, now, monitor, probe, proxy, limiter>>

\* the errors a store call returns: a poisoned connection mutex
\* (Error::Internal) or a failed query
StoreErrors == {"Internal", "Sqlite"}

\* a loop that ends at the first fetch error
StopsOnError(ret) == IF ret.ok THEN "sleep" ELSE "stopped"

\* Err(e) => eprintln!(..): the match arm falls through to the top of the loop
AfterFetch(ret) == "sleep"

\* match db.get_pending_scans(10) { ... Err(e) => eprintln!(...) }
MonitorFetchFails(e) ==
    /\ monitor.pc = "fetch"
    /\ monitor' = [monitor EXCEPT !.pc = AfterFetch(Err(e))]
    /\ last' = [op |-> "get_pending_scans", ret |-> Err(e), tasks_before |-> tasks]
    /\ UNCHANGED <<assets, history, settings, now, tasks, emitted, trip, probe, proxy, limiter>>

\* the scan task when update_scan_result returns Err: let _ = drops it and
\* the task goes on to the recursion test and the emit
MonitorScanUnsaved(t, outcome, e) ==
    LET f == tasks[t]
        r == scan_url(f.url, f.method, outcome)
    IN  /\ t \in DOMAIN tasks
        /\ f.kind = "monitor" /\ f.pc = "scan"
        /\ last' = [op |-> "update_scan_result", caller |-> "monitor", task |-> t,
                    id |-> f.id, ret |-> Err(e), tasks_before |-> tasks,
                    monitor_before |-> monitor, emitted_before |-> emitted]
        /\ IF should_recurse(f)
           THEN IF ReturnsEarly(f)
                THEN tasks' = Finish(tasks, t) /\ emitted' = emitted
                ELSE /\ tasks' = [tasks EXCEPT ![t] =
                                    [kind |-> "monitor", pc |-> "domains", id |-> f.id,
                                     depth |-> f.depth, seed |-> MonitorSeed(f),
                                     discovered_urls |-> r.discovered_urls]]
                     /\ emitted' = emitted
           ELSE tasks' = Finish(tasks, t) /\ emitted' = emitted \cup {f.id}
        /\ UNCHANGED <<assets, history, settings, now, monitor, trip, probe, proxy, limiter>>

\* let authorized_domains = db_state.get_authorized_domains().unwrap_or_default()
Domains(t, kind) ==
    LET f == tasks[t]
    IN  /\ t \in DOMAIN tasks
        /\ f.kind = kind /\ f.pc = "domains"
        /\ last' = Quiet
        /\ IF f.discovered_urls = <<>>
           THEN /\ tasks' = Finish(tasks, t)
                /\ emitted' = IF kind = "monitor" THEN emitted \cup {f.id} ELSE emitted
           ELSE /\ tasks' = [tasks EXCEPT ![t] =
                               [kind |-> kind, pc |-> "discover", id |-> f.id,
                                depth |-> f.depth, seed |-> f.seed,
                                authorized_domains |-> get_authorized_domains(assets),
                                discovered_urls |-> f.discovered_urls]]
                /\ emitted' = emitted
        /\ UNCHANGED <<assets, history, settings, now, monitor, trip, probe, proxy, limiter>>

MonitorDomains(t) == Domains(t, "monitor")

\* the arguments of the add_asset call for an admitted url, by caller
ChildArgs(kind, depth) ==
    IF kind = "monitor"
    THEN [recursive |-> ChildRecursive(depth), depth |-> ChildDepth(depth)]
    ELSE [recursive |-> TRUE, depth |-> 0]

\* one turn of for discovered_url in result.discovered_urls
Discover(t, kind) ==
    LET f    == tasks[t]
        url  == Head(f.discovered_urls)
        host == host_str(url)
        args == ChildArgs(kind, f.depth)
        res  == add_asset(assets, url, "Recursive", NoMethod, args.recursive, FALSE,
                          args.depth, now)
    IN  /\ t \in DOMAIN tasks
        /\ f.kind = kind /\ f.pc = "discover"
        /\ IF host # NoHost /\ Admits(host, f.authorized_domains)
           THEN /\ assets' = res.assets
                /\ last' = AddCall(kind, url, "Recursive", NoMethod, args.recursive,
                                   FALSE, args.depth, res) @@ Decision(kind, f, url)
           ELSE /\ assets' = assets
                /\ last' = [op |-> "skip", caller |-> kind, url |-> url,
                            before |-> assets] @@ Decision(kind, f, url)
        /\ IF Tail(f.discovered_urls) = <<>>
           THEN /\ tasks' = Finish(tasks, t)
                /\ emitted' = IF kind = "monitor" THEN emitted \cup {f.id} ELSE emitted
           ELSE /\ tasks' = [tasks EXCEPT ![t].discovered_urls = Tail(@)]
                /\ emitted' = emitted
        /\ UNCHANGED <<history, settings, now, monitor, trip, probe, proxy, limiter>>

MonitorDiscover(t) == Discover(t, "monitor")

(***************************************************************************)
(* ImportService::process_staged_assets, one staged asset.                 *)
(***************************************************************************)
\* the url as process_staged_assets stores it
Normalize(url) ==
    LET with_scheme == IF SchemeLen(url) = 0 /\ Contains(url, ".")
                       THEN "https://" \o url ELSE url
    IN  IF host_str(with_scheme) = NoHost THEN with_scheme
        ELSE LET full == UrlToString(with_scheme)
                 path == SubSeq(full, Len(Origin(full)) + 1, Len(full))
             IN  IF Len(path) > 1 /\ EndsWith(path, "/")
                 THEN SubSeq(full, 1, Len(full) - 1) ELSE full

asset_exists_by_url_method(A, url, method) == RowsOf(A, url, method) # {}

ImportAdd(url, method, source, recursive, is_workbench_dest, skip_duplicates) ==
    LET normalized == Normalize(url)
        res == add_asset(assets, normalized, source, method, recursive,
                         is_workbench_dest, 0, now)
    IN  /\ FreeSlots # {}
        /\ ~(skip_duplicates /\ ~is_workbench_dest
               /\ asset_exists_by_url_method(assets, url, method))
        /\ assets' = res.assets
        /\ last' = AddCall("stage", normalized, source, method, recursive,
                           is_workbench_dest, 0, res)
        /\ tasks' = IF res.ret.ok
                    THEN Spawn(tasks,
                           [kind |-> "import",
                            pc |-> IF source = "Workbench" THEN "workbench" ELSE "cache",
                            id |-> res.ret.value, url |-> normalized, method |-> method,
                            recursive |-> recursive,
                            depth |-> res.assets[res.ret.value].depth,
                            cached_result |-> FALSE])
                    ELSE tasks
        /\ UNCHANGED <<history, settings, now, monitor, emitted, trip, probe, proxy, limiter>>

\* SqliteDatabase::update_asset_workbench_status
update_asset_workbench_status(A, id, is_workbench, t) ==
    IF id \in DOMAIN A
    THEN [A EXCEPT ![id] = [@ EXCEPT !.is_workbench = is_workbench, !.updated_at = t]]
    ELSE A

\* if source == "Workbench" { update_asset_workbench_status(asset_id, true) }
ImportWorkbench(t) ==
    LET f == tasks[t]
    IN  /\ t \in DOMAIN tasks
        /\ f.kind = "import" /\ f.pc = "workbench"
        /\ assets' = update_asset_workbench_status(assets, f.id, TRUE, now)
        /\ tasks' = [tasks EXCEPT ![t].pc = "cache"]
        /\ last' = [op |-> "update_asset_workbench_status", id |-> f.id, before |-> assets]
        /\ UNCHANGED <<history, settings, now, monitor, emitted, trip, probe, proxy, limiter>>

\* let cached_result = if is_asset_recently_scanned(..., 10) { emit; true } else { false }
ImportCache(t) ==
    LET f == tasks[t]
        cached == is_asset_recently_scanned(assets, f.url, f.method, CacheMinutes, now)
    IN  /\ t \in DOMAIN tasks
        /\ f.kind = "import" /\ f.pc = "cache"
        /\ tasks' = [tasks EXCEPT ![t].pc = "scan", ![t].cached_result = cached]
        /\ emitted' = IF cached THEN emitted \cup {f.id} ELSE emitted
        /\ last' = Quiet
        /\ UNCHANGED <<assets, history, settings, now, monitor, trip, probe, proxy, limiter>>

\* the spawned task: scan unless cached, probe for children if recursive
ImportScan(t, outcome) ==
    LET f   == tasks[t]
        r   == scan_url(f.url, f.method, outcome)
        res == update_scan_result(assets, history, f.id, r, now)
    IN  /\ t \in DOMAIN tasks
        /\ f.kind = "import" /\ f.pc = "scan"
        /\ IF ~f.cached_result
           THEN /\ assets' = res.assets
                /\ history' = res.history
                /\ emitted' = emitted \cup {f.id}
                /\ last' = ScanCall("import", t, f.id, outcome, r)
                /\ trip' = TripAfterWrite(f.id)
           ELSE /\ UNCHANGED <<assets, history, emitted, trip, limiter>>
                /\ last' = Quiet
        /\ IF f.recursive
           THEN tasks' = [tasks EXCEPT ![t] =
                             [kind |-> "import", pc |-> "domains", id |-> f.id,
                              depth |-> f.depth, seed |-> [recursive |-> f.recursive],
                              discovered_urls |-> r.discovered_urls]]
           ELSE tasks' = Finish(tasks, t)
        /\ UNCHANGED <<settings, now, monitor, probe, proxy, limiter>>

ImportDomains(t) == Domains(t, "import")

ImportDiscover(t) == Discover(t, "import")

(***************************************************************************)
(* rescan_asset (commands/scan.rs).                                        *)
(***************************************************************************)
RescanStart(id) ==
    /\ id \in DOMAIN assets
    /\ FreeSlots # {}
    /\ Len(history) < MaxHistory
    /\ tasks' = Spawn(tasks, [kind |-> "rescan", pc |-> "scan", id |-> id,
                              url |-> assets[id].url, method |-> assets[id].method])
    /\ last' = Quiet
    /\ UNCHANGED <<assets, history, settings, now, monitor, emitted, trip, probe, proxy, limiter>>

\* rescan_asset called over and over, up to MaxArchive history rows
RescanAgain(id) ==
    /\ id \in DOMAIN assets
    /\ FreeSlots # {}
    /\ Len(history) < MaxArchive
    /\ tasks' = Spawn(tasks, [kind |-> "rescan", pc |-> "scan", id |-> id,
                              url |-> assets[id].url, method |-> assets[id].method])
    /\ last' = Quiet
    /\ UNCHANGED <<assets, history, settings, now, monitor, emitted, trip, probe, proxy, limiter>>

\* the update_asset_triage command
SetTriage(id, triage_status, notes) ==
    LET res == update_asset_triage(assets, id, triage_status, notes, now)
    IN  /\ id \in DOMAIN assets
        /\ assets' = res.assets
        /\ last' = [op |-> "update_asset_triage", id |-> id,
                    triage_status |-> triage_status, notes |-> notes,
                    before |-> assets, hbefore |-> history, ret |-> res.ret]
        /\ trip' = TripAfterWrite(id)
        /\ UNCHANGED <<history, settings, now, monitor, tasks, emitted, probe, proxy, limiter>>

RescanScan(t, outcome) ==
    LET f   == tasks[t]
        r   == scan_url(f.url, f.method, outcome)
        res == update_scan_result(assets, history, f.id, r, now)
    IN  /\ t \in DOMAIN tasks
        /\ f.kind = "rescan" /\ f.pc = "scan"
        /\ assets' = res.assets
        /\ history' = res.history
        /\ emitted' = emitted \cup {f.id}
        /\ tasks' = Finish(tasks, t)
        /\ last' = ScanCall("rescan", t, f.id, outcome, r)
        /\ trip' = TripAfterWrite(f.id)
        /\ UNCHANGED <<settings, now, monitor, probe, proxy, limiter>>

(***************************************************************************)
(* update_scan_result statement by statement, as the rescan task runs it:  *)
(* lock and SELECT the current row, INSERT the history entry, UPDATE the   *)
(* live fields and drop the guard.  A task between the first and the last  *)
(* holds the connection mutex, and every other store call waits for it.    *)
(***************************************************************************)
HoldsStore(t) == tasks[t].pc \in {"archive", "overwrite"}

\* a mutex that is granted whoever holds it
StoreGranted == TRUE

\* self.conn.lock(): granted when no task holds the guard
StoreFree == \A t \in DOMAIN tasks : ~HoldsStore(t)

\* scan_url, then conn.lock() and SELECT status_code, risk_score, findings,
\* response_headers, response_body FROM assets WHERE id = ?1
RescanAcquire(t, outcome) ==
    LET f == tasks[t]
        r == scan_url(f.url, f.method, outcome)
    IN  /\ t \in DOMAIN tasks
        /\ f.kind = "rescan" /\ f.pc = "scan"
        /\ StoreFree
        /\ tasks' = [tasks EXCEPT ![t] =
                        [kind |-> "rescan", pc |-> "archive", id |-> f.id,
                         outcome |-> outcome, result |-> r,
                         current_asset |-> assets[f.id]]]
        /\ last' = Quiet
        /\ UNCHANGED <<assets, history, settings, now, monitor, emitted, trip, probe, proxy,
                       limiter>>

\* if old_code != 0 || !old_body.is_empty() { INSERT INTO scan_history ... }
RescanArchive(t) ==
    LET f   == tasks[t]
        old == f.current_asset
    IN  /\ t \in DOMAIN tasks
        /\ f.kind = "rescan" /\ f.pc = "archive"
        /\ history' = IF ShouldArchive(old.status_code, old.response_body)
                      THEN Append(history, HistoryEntry(f.id, old, now))
                      ELSE history
        /\ tasks' = [tasks EXCEPT ![t].pc = "overwrite"]
        /\ last' = Quiet
        /\ UNCHANGED <<assets, settings, now, monitor, emitted, trip, probe, proxy, limiter>>

\* UPDATE assets SET status = ?1, ... WHERE id = ?9; the guard drops, the
\* task emits "scan-update" and ends
RescanOverwrite(t) ==
    LET f == tasks[t]
    IN  /\ t \in DOMAIN tasks
        /\ f.kind = "rescan" /\ f.pc = "overwrite"
        /\ assets' = update_scan_result(assets, history, f.id, f.result, now).assets
        /\ emitted' = emitted \cup {f.id}
        /\ tasks' = Finish(tasks, t)
        /\ last' = ScanCall("rescan", t, f.id, f.outcome, f.result)
        /\ trip' = TripAfterWrite(f.id)
        /\ UNCHANGED <<history, settings, now, monitor, probe, proxy, limiter>>

(***************************************************************************)
(* toggle_finding_fp (commands/assets.rs): update_finding_fp, then         *)
(* recalculate_asset_risk_score, each under its own hold of the mutex.     *)
(* The command is synchronous: it runs on the main thread, slot 0 of       *)
(* tasks, one at a time, beside the spawned tasks of slots 1..MaxTasks.    *)
(***************************************************************************)
MainThread == 0

ToggleInFlight == MainThread \in DOMAIN tasks

MatchedFindings(A, id, short_name, evidence) ==
    {i \in 1..Len(A[id].findings) : Matches(A[id].findings[i], short_name, evidence)}

\* a command that goes on to rescore whatever update_finding_fp returned
ProceedsRegardless(ret) == TRUE

\* .map_err(|e| e.to_string())?; the command goes on only after Ok
ProceedsToRecalc(ret) == ret.ok

ToggleStart(asset_id, short_name, evidence, is_fp, reason) ==
    LET res == update_finding_fp(assets, asset_id, short_name, evidence, is_fp, reason, now)
        fresh == \A i \in MatchedFindings(assets, asset_id, short_name, evidence) :
                     ~assets[asset_id].findings[i].is_fp
    IN  /\ ~ToggleInFlight
        /\ assets' = res.assets
        /\ last' = [op |-> "update_finding_fp", id |-> asset_id, short |-> short_name,
                    evidence |-> evidence, is_fp |-> is_fp, before |-> assets,
                    hbefore |-> history, ret |-> res.ret]
        /\ tasks' = IF ProceedsToRecalc(res.ret)
                    THEN tasks @@ (MainThread :> [kind |-> "toggle", pc |-> "recalc",
                                                  id |-> asset_id])
                    ELSE tasks
        /\ trip' = IF ~res.ret.ok THEN trip
                   ELSE IF is_fp /\ fresh
                        THEN [stage |-> 1, id |-> asset_id, short |-> short_name,
                              evidence |-> evidence,
                              risk_score |-> assets[asset_id].risk_score,
                              status |-> assets[asset_id].status]
                   ELSE IF ~is_fp /\ trip.stage = 2 /\ trip.id = asset_id
                           /\ trip.short = short_name /\ trip.evidence = evidence
                        THEN [trip EXCEPT !.stage = 3]
                   ELSE TripAfterWrite(asset_id)
        /\ UNCHANGED <<history, settings, now, monitor, emitted, probe, proxy, limiter>>

ToggleRecalc(t) ==
    LET f   == tasks[t]
        res == recalculate_asset_risk_score(assets, f.id, now)
    IN  /\ t \in DOMAIN tasks
        /\ f.kind = "toggle" /\ f.pc = "recalc"
        /\ assets' = res.assets
        /\ tasks' = Finish(tasks, t)
        /\ last' = [op |-> "recalculate_asset_risk_score", id |-> f.id,
                    before |-> assets, hbefore |-> history, ret |-> res.ret]
        /\ trip' = IF trip.stage \in {1, 3} /\ trip.id = f.id /\ res.ret.ok
                   THEN [trip EXCEPT !.stage = @ + 1]
                   ELSE TripAfterWrite(f.id)
        /\ UNCHANGED <<history, settings, now, monitor, emitted, probe, proxy, limiter>>

(***************************************************************************)
(* The environment of the discovery specification: the pages the network   *)
(* serves.  acme.com is a chain of pages p0 -> p1 -> ... -> p4; m.x.com    *)
(* is a host under a deny-listed domain.                                   *)
(***************************************************************************)
Page(url) ==
    CASE url = "https://acme.com/p0" -> "docs /p1 /logo.png https://cdn.acme.com/p9"
      [] url = "https://acme.com/p1" -> "/p2"
      [] url = "https://acme.com/p2" -> "https://acme.com/p3"
      [] url = "https://acme.com/p3" -> "/p4"
      [] url = "https://m.x.com/p0" -> "/p1 //acme.com/p0"
      [] url = "https://acme.com/q0" -> "/p1"
      [] OTHER -> "ok"

\* every page is served, and analyze finds nothing in it
DiscOutcomes(url) == {Response(200, <<>>, Page(url))}

At(t, kind, pc) == tasks[t].kind = kind /\ tasks[t].pc = pc

MonitorTask(t) ==
    \/ At(t, "monitor", "scan")
          /\ \E outcome \in DiscOutcomes(tasks[t].url) : MonitorScan(t, outcome)
    \/ MonitorDomains(t)
    \/ MonitorDiscover(t)

ImportTask(t) ==
    \/ ImportCache(t)
    \/ At(t, "import", "scan")
          /\ \E outcome \in DiscOutcomes(tasks[t].url) : ImportScan(t, outcome)
    \/ ImportDomains(t)
    \/ ImportDiscover(t)

(***************************************************************************)
(* Discovery from operator-added recursive roots, by the monitor and by    *)
(* the staged import of a root under a deny-listed domain, with the        *)
(* recursive-discovery setting left unset.                                 *)
(***************************************************************************)
DiscRoots == {"https://acme.com/p0", "https://m.x.com/p0"}

NextDisc ==
    \/ \E url \in DiscRoots : FeedAsset(url, "User", NoMethod, TRUE, FALSE)
    \/ ImportAdd("https://m.x.com/p0", "GET", "Import", TRUE, FALSE, FALSE)
    \/ MonitorWake
    \/ MonitorFetch
    \/ \E t \in DOMAIN tasks : MonitorTask(t)
    \/ \E t \in DOMAIN tasks : ImportTask(t)

SpecDisc == Init /\ [][NextDisc]_vars

(***************************************************************************)
(* The monitor crawling the acme.com chain from one root, the operator     *)
(* switching the recursive-discovery setting.                              *)
(***************************************************************************)
NextDepth ==
    \/ \E recursive \in BOOLEAN :
          FeedAsset("https://acme.com/p0", "User", NoMethod, recursive, FALSE)
    \/ \E value \in {"true", "false"} : SetSetting(value)
    \/ MonitorWake
    \/ MonitorFetch
    \/ \E t \in DOMAIN tasks : MonitorTask(t)

SpecDepth == Init /\ [][NextDepth]_vars

(***************************************************************************)
(* The store under add_asset alone.                                        *)
(***************************************************************************)
StoreUrls == {"http://api.com", "http://test.com"}

StoreSources == {"Import", "Recursive", "Workbench"}

NextStore ==
    \E url \in StoreUrls, source \in StoreSources, method \in Methods,
       recursive \in BOOLEAN :
        FeedAsset(url, source, method, recursive, source = "Workbench")

SpecStore == Init /\ [][NextStore]_vars

(***************************************************************************)
(* The scope decision on its own: a table of stored roots, some of them    *)
(* discovered ones, and one discovered host put to the test the monitor    *)
(* makes (services/monitor.rs 94-138).                                     *)
(***************************************************************************)
ProbeHosts == {"acme.com", "api.acme.com", "notacme.com", "x.com", "m.x.com", "box.com"}

ProbeUrls == <<"https://acme.com/", "https://api.acme.com/v1", "https://box.com/",
               "https://x.com/home">>

ProbeSources == {"User", "Recursive"}

ProbeTable(sources) ==
    [i \in 1..Len(ProbeUrls) |-> NewRow(ProbeUrls[i], "GET", sources[i], FALSE, FALSE, 0, 0)]

InitGuard ==
    /\ assets \in {ProbeTable(sources) : sources \in [1..Len(ProbeUrls) -> ProbeSources]}
    /\ history = <<>>
    /\ settings = NoSetting
    /\ now = 0
    /\ monitor = [pc |-> "sleep", recursive_enabled |-> FALSE]
    /\ tasks = <<>>
    /\ emitted = {}
    /\ last = [op |-> "init"]
    /\ trip = [stage |-> 0]
    /\ probe \in {[stage |-> "input", host |-> h] : h \in ProbeHosts}
    /\ limiter = RateLimiter
    /\ proxy = ProxyService

GuardDecide ==
    LET authorized_domains == get_authorized_domains(assets)
    IN  /\ probe.stage = "input"
        /\ probe' = [stage |-> "decided", host |-> probe.host,
                     authorized |-> authorized_domains,
                     admitted |-> Admits(probe.host, authorized_domains)]
        /\ UNCHANGED <<assets, history, settings, now, monitor, tasks, emitted, last, trip, limiter, proxy>>

NextGuard == GuardDecide

SpecGuard == InitGuard /\ [][NextGuard]_vars

(***************************************************************************)
(* extract_urls on its own: bodies of up to MaxWords words, among them     *)
(* absolute and root-relative links of the request's host and of another   *)
(* host, static assets, and a request URL that does not parse.             *)
(***************************************************************************)
ExtractWords ==
    {"https://acme.com/p1", "/p1", "https://evil.com/x", "/logo.PNG",
     "https://ACME.com/a", "//evil.com/y", "href=/z2", "/img.png/v"}

ExtractBases == {"https://acme.com/start", "http://acme.com", "acme.com/start"}

RECURSIVE JoinWords(_)
JoinWords(ws) ==
    IF Len(ws) = 0 THEN ""
    ELSE IF Len(ws) = 1 THEN ws[1]
    ELSE ws[1] \o " " \o JoinWords(Tail(ws))

ExtractBodies ==
    {JoinWords(ws) : ws \in UNION {[1..n -> ExtractWords] : n \in 0..MaxWords}}

InitExtract ==
    /\ assets = <<>>
    /\ history = <<>>
    /\ settings = NoSetting
    /\ now = 0
    /\ monitor = [pc |-> "sleep", recursive_enabled |-> FALSE]
    /\ tasks = <<>>
    /\ emitted = {}
    /\ last = [op |-> "init"]
    /\ trip = [stage |-> 0]
    /\ probe \in {[stage |-> "input", body |-> b, base_url |-> u] :
                     b \in ExtractBodies, u \in ExtractBases}
    /\ limiter = RateLimiter
    /\ proxy = ProxyService

\* let discovered_urls = self.extract_urls(&response_body, url)
ExtractUrls ==
    /\ probe.stage = "input"
    /\ probe' = [stage |-> "extracted", body |-> probe.body, base_url |-> probe.base_url,
                 discovered_urls |-> extract_urls(probe.body, probe.base_url)]
    /\ UNCHANGED <<assets, history, settings, now, monitor, tasks, emitted, last, trip, limiter, proxy>>

NextExtract == ExtractUrls

SpecExtract == InitExtract /\ [][NextExtract]_vars

(***************************************************************************)
(* Triage of one asset: rescans with the results the detection engine can  *)
(* give, and false-positive toggles on its findings.                       *)
(***************************************************************************)
TriageUrl == "http://api.com"

TriageOutcomes ==
    {TransportFailure,
     Response(200, <<Badge("SQLI", "Critical", "q=1")>>, "ok"),
     Response(200, <<Badge("XSS", "High", "q=2"), Badge("HDR", "Medium", "q=3")>>, "ok")}

ToggleTargets == {<<"SQLI", "q=1">>, <<"XSS", "q=2">>}

NextTriage ==
    \/ FeedAsset(TriageUrl, "User", NoMethod, FALSE, FALSE)
    \/ \E id \in DOMAIN assets : RescanStart(id)
    \/ \E t \in DOMAIN tasks :
          At(t, "rescan", "scan") /\ \E outcome \in TriageOutcomes : RescanScan(t, outcome)
    \/ \E id \in DOMAIN assets, target \in ToggleTargets, is_fp \in BOOLEAN :
          ToggleStart(id, target[1], target[2], is_fp,
                      IF is_fp THEN "triaged" ELSE NoReason)
    \/ \E t \in DOMAIN tasks : ToggleRecalc(t)

SpecTriage == Init /\ [][NextTriage]_vars

(***************************************************************************)
(* Triage as time passes: one asset whose scans find one Critical finding, *)
(* toggles that name it and toggles that name a finding it does not have.  *)
(***************************************************************************)
TimedOutcomes == {Response(200, <<Badge("SQLI", "Critical", "q=1")>>, "ok")}

NextTimed ==
    \/ FeedAsset(TriageUrl, "User", NoMethod, FALSE, FALSE)
    \/ \E id \in DOMAIN assets : RescanStart(id)
    \/ \E t \in DOMAIN tasks :
          At(t, "rescan", "scan") /\ \E outcome \in TimedOutcomes : RescanScan(t, outcome)
    \/ \E id \in DOMAIN assets, target \in ToggleTargets, is_fp \in BOOLEAN :
          ToggleStart(id, target[1], target[2], is_fp,
                      IF is_fp THEN "triaged" ELSE NoReason)
    \/ \E t \in DOMAIN tasks : ToggleRecalc(t)
    \/ \E minutes \in ElapseSteps : Elapse(minutes)

SpecTimed == Init /\ [][NextTimed]_vars

(***************************************************************************)
(* A recursive root staged into the Workbench, re-added by another feeder, *)
(* with the monitor running.                                               *)
(***************************************************************************)
WorkbenchRoot == "https://acme.com/p0"

NextWorkbench ==
    \/ ImportAdd(WorkbenchRoot, "GET", "Workbench", TRUE, TRUE, FALSE)
    \/ FeedAsset(WorkbenchRoot, "Import", NoMethod, TRUE, FALSE)
    \/ MonitorWake
    \/ MonitorFetch
    \/ \E t \in DOMAIN tasks : MonitorTask(t)
    \/ \E t \in DOMAIN tasks : ImportWorkbench(t) \/ ImportTask(t)

SpecWorkbench == Init /\ [][NextWorkbench]_vars

(***************************************************************************)
(* The monitor on one operator-added root whose host may be unreachable.   *)
(***************************************************************************)
OutageOutcomes(url) == {TransportFailure} \cup DiscOutcomes(url)

NextOutage ==
    \/ \E recursive \in BOOLEAN :
          FeedAsset("https://acme.com/p0", "User", NoMethod, recursive, FALSE)
    \/ MonitorWake
    \/ MonitorFetch
    \/ \E t \in DOMAIN tasks :
          \/ At(t, "monitor", "scan")
                /\ \E outcome \in OutageOutcomes(tasks[t].url) : MonitorScan(t, outcome)
          \/ MonitorDomains(t)
          \/ MonitorDiscover(t)

SpecOutage == Init /\ [][NextOutage]_vars

(***************************************************************************)
(* The monitor on one operator-added root as time passes.                  *)
(***************************************************************************)
NextStale ==
    \/ \E recursive \in BOOLEAN :
          FeedAsset("https://acme.com/p0", "User", NoMethod, recursive, FALSE)
    \/ MonitorWake
    \/ MonitorFetch
    \/ \E t \in DOMAIN tasks :
          \/ At(t, "monitor", "scan")
                /\ \E outcome \in OutageOutcomes(tasks[t].url) : MonitorScan(t, outcome)
          \/ MonitorDomains(t)
          \/ MonitorDiscover(t)
    \/ \E minutes \in ElapseSteps : Elapse(minutes)

SpecStale == Init /\ [][NextStale]_vars

(***************************************************************************)
(* Two roots of acme.com whose pages both link /p1, scanned side by side;  *)
(* /p1 may have been imported as a POST endpoint before.                   *)
(***************************************************************************)
ParentRoots == {"https://acme.com/p0", "https://acme.com/q0"}

SharedChild == "https://acme.com/p1"

\* the operator adds a url the store does not hold yet
Unstored(url) == \A i \in DOMAIN assets : assets[i].url # url

NextParents ==
    \/ \E url \in ParentRoots :
          Unstored(url) /\ FeedAsset(url, "User", NoMethod, TRUE, FALSE)
    \/ Unstored(SharedChild) /\ FeedAsset(SharedChild, "Import", "POST", FALSE, FALSE)
    \/ MonitorWake
    \/ MonitorFetchParents
    \/ \E t \in DOMAIN tasks : MonitorTask(t)

SpecParents == Init /\ [][NextParents]_vars

(***************************************************************************)
(* Rescans of one asset, statement by statement, beside false-positive     *)
(* toggles and inserts that contend for the connection mutex.              *)
(***************************************************************************)
NextLocked ==
    \/ StoreFree /\ FeedAsset(TriageUrl, "User", NoMethod, FALSE, FALSE)
    \/ \E id \in DOMAIN assets : StoreFree /\ RescanStart(id)
    \/ \E t \in DOMAIN tasks :
          At(t, "rescan", "scan") /\ \E outcome \in TimedOutcomes : RescanAcquire(t, outcome)
    \/ \E t \in DOMAIN tasks : RescanArchive(t)
    \/ \E t \in DOMAIN tasks : RescanOverwrite(t)
    \/ \E id \in DOMAIN assets, is_fp \in BOOLEAN :
          StoreFree /\ ToggleStart(id, "SQLI", "q=1", is_fp,
                                   IF is_fp THEN "triaged" ELSE NoReason)
    \/ \E t \in DOMAIN tasks : StoreFree /\ ToggleRecalc(t)

SpecLocked == Init /\ [][NextLocked]_vars

(***************************************************************************)
(* The monitor on two operator-added assets while store calls may fail.    *)
(***************************************************************************)
FaultRoots == {"https://acme.com/p4", "https://acme.com/p5"}

NextFaults ==
    \/ \E url \in FaultRoots :
          Unstored(url) /\ FeedAsset(url, "User", NoMethod, FALSE, FALSE)
    \/ MonitorWake
    \/ MonitorFetchParents
    \/ \E e \in StoreErrors : MonitorFetchFails(e)
    \/ \E t \in DOMAIN tasks :
          At(t, "monitor", "scan")
             /\ \E outcome \in OutageOutcomes(tasks[t].url) : MonitorScan(t, outcome)
    \/ \E t \in DOMAIN tasks, e \in StoreErrors :
          At(t, "monitor", "scan")
             /\ \E outcome \in OutageOutcomes(tasks[t].url) :
                   MonitorScanUnsaved(t, outcome, e)

SpecFaults == Init /\ [][NextFaults]_vars

(***************************************************************************)
(* A long life of one asset: rescans until its history outgrows the read   *)
(* limit, beside a second asset, toggles and triage edits early on.        *)
(***************************************************************************)
HistoryUrls == {TriageUrl}

NextHistory ==
    \/ \E url \in HistoryUrls :
          Unstored(url) /\ FeedAsset(url, "User", NoMethod, FALSE, FALSE)
    \/ \E id \in DOMAIN assets : RescanStart(id)
    \/ \E id \in DOMAIN assets : assets[id].url = TriageUrl /\ RescanAgain(id)
    \/ \E t \in DOMAIN tasks :
          At(t, "rescan", "scan") /\ \E outcome \in TimedOutcomes : RescanScan(t, outcome)
    \/ \E id \in DOMAIN assets :
          /\ Len(history) < MaxHistory /\ assets[id].url = TriageUrl
          /\ ToggleStart(id, "SQLI", "q=1", TRUE, "triaged")
    \/ \E t \in DOMAIN tasks : ToggleRecalc(t)
    \/ \E id \in DOMAIN assets :
          /\ Len(history) < MaxHistory /\ assets[id].url = TriageUrl
          /\ SetTriage(id, "Suspect", "check this")

SpecHistory == Init /\ [][NextHistory]_vars

(***************************************************************************)
(* Triage edits and rescans of one asset as time passes.                   *)
(***************************************************************************)
TriageStatuses == {"Suspect", "Reviewed"}

NextAxes ==
    \/ FeedAsset(TriageUrl, "User", NoMethod, FALSE, FALSE)
    \/ \E id \in DOMAIN assets : RescanStart(id)
    \/ \E t \in DOMAIN tasks :
          At(t, "rescan", "scan") /\ \E outcome \in TriageOutcomes : RescanScan(t, outcome)
    \/ \E id \in DOMAIN assets, triage_status \in TriageStatuses :
          SetTriage(id, triage_status, "check this")
    \/ \E minutes \in ElapseSteps : Elapse(minutes)

SpecAxes == Init /\ [][NextAxes]_vars

(***************************************************************************)
(* Deletes beside scans in flight: the operator deletes assets and adds    *)
(* others while a rescan or a monitor task holds the id it was spawned     *)
(* with.                                                                   *)
(***************************************************************************)
DeleteAsset(id, foreign_keys) ==
    LET res == delete_asset(assets, history, id, foreign_keys)
    IN  /\ assets' = res.assets
        /\ history' = res.history
        /\ last' = [op |-> "delete_asset", id |-> id, ret |-> res.ret]
        /\ UNCHANGED <<settings, now, monitor, tasks, emitted, trip, probe, proxy, limiter>>

ClearAllAssets(foreign_keys) ==
    LET res == clear_all_assets(assets, history, foreign_keys)
    IN  /\ assets' = res.assets
        /\ history' = res.history
        /\ last' = [op |-> "clear_all_assets", ret |-> res.ret]
        /\ UNCHANGED <<settings, now, monitor, tasks, emitted, trip, probe, proxy, limiter>>

DeleteUrls == {"https://acme.com/p4", "https://acme.com/p5"}

NextDelete ==
    \/ \E url \in DeleteUrls :
          /\ Unstored(url)
          /\ NextRowId(assets) <= MaxRows
          /\ FeedAsset(url, "User", NoMethod, FALSE, FALSE)
    \/ \E id \in DOMAIN assets : tasks = <<>> /\ RescanStart(id)
    \/ tasks = <<>> /\ MonitorWake
    \/ MonitorFetch
    \/ \E t \in DOMAIN tasks :
          At(t, "rescan", "scan") /\ \E outcome \in TimedOutcomes : RescanScan(t, outcome)
    \/ \E t \in DOMAIN tasks :
          At(t, "monitor", "scan") /\ \E outcome \in TimedOutcomes : MonitorScan(t, outcome)
    \/ \E id \in DOMAIN assets, foreign_keys \in BOOLEAN : DeleteAsset(id, foreign_keys)
    \/ \E foreign_keys \in BOOLEAN : assets # <<>> /\ ClearAllAssets(foreign_keys)

SpecDelete == Init /\ [][NextDelete]_vars

(***************************************************************************)
(* The poll loop and its scan tasks under fair scheduling: the loop's      *)
(* sleep ends, its fetch returns and every spawned task runs to its        *)
(* update_scan_result, while the operator adds assets at will.             *)
(***************************************************************************)
DrainOutcomes == {TransportFailure, Response(200, <<>>, "ok")}

TaskPersists(t) ==
    /\ t \in DOMAIN tasks
    /\ At(t, "monitor", "scan")
    /\ \E outcome \in DrainOutcomes : MonitorScan(t, outcome)

NextDrain ==
    \/ \E url \in DeleteUrls :
          Unstored(url) /\ FeedAsset(url, "User", NoMethod, FALSE, FALSE)
    \/ MonitorWake
    \/ MonitorFetchParents
    \/ \E t \in 1..MaxParents : TaskPersists(t)

SpecDrain ==
    /\ Init
    /\ [][NextDrain]_vars
    /\ WF_vars(MonitorWake)
    /\ WF_vars(MonitorFetchParents)
    /\ \A t \in 1..MaxParents : WF_vars(TaskPersists(t))

(***************************************************************************)
(* One asset fed again and again, by different feeders, between its scans  *)
(* and its false-positive toggles, as time passes.                         *)
(***************************************************************************)
\* source, recursive and is_workbench of the feeders
RefeedArgs == {<<"User", FALSE, FALSE>>, <<"Proxy", TRUE, FALSE>>, <<"Recursive", FALSE, TRUE>>}

NextRefeed ==
    \/ \E args \in RefeedArgs : FeedAsset(TriageUrl, args[1], NoMethod, args[2], args[3])
    \/ \E id \in DOMAIN assets : RescanStart(id)
    \/ \E t \in DOMAIN tasks :
          At(t, "rescan", "scan")
             /\ \E outcome \in {TransportFailure} \cup TimedOutcomes : RescanScan(t, outcome)
    \/ \E id \in DOMAIN assets : ToggleStart(id, "SQLI", "q=1", TRUE, "triaged")
    \/ \E t \in DOMAIN tasks : ToggleRecalc(t)
    \/ \E minutes \in ElapseSteps : Elapse(minutes)

SpecRefeed == Init /\ [][NextRefeed]_vars

(***************************************************************************)
(* Discovery beside the operator's deletes and source changes: a root      *)
(* whose page links one child, scanned by the poll loop.                   *)
(***************************************************************************)
SetSource(id, new_source) ==
    LET res == update_asset_source(assets, id, new_source, now)
    IN  /\ id \in DOMAIN assets
        /\ assets[id].source # new_source
        /\ assets' = res.assets
        /\ last' = [op |-> "update_asset_source", id |-> id, ret |-> res.ret]
        /\ UNCHANGED <<history, settings, now, monitor, tasks, emitted, trip, probe, proxy, limiter>>

UncoverRoot == "https://acme.com/p3"

NextUncover ==
    \/ /\ Unstored(UncoverRoot)
       /\ NextRowId(assets) <= MaxRows
       /\ FeedAsset(UncoverRoot, "User", NoMethod, TRUE, FALSE)
    \/ tasks = <<>> /\ MonitorWake
    \/ MonitorFetch
    \/ \E t \in DOMAIN tasks : MonitorTask(t)
    \/ \E id \in DOMAIN assets, foreign_keys \in BOOLEAN : DeleteAsset(id, foreign_keys)
    \/ \E id \in DOMAIN assets, new_source \in {"User", "Recursive"} : SetSource(id, new_source)

SpecUncover == Init /\ [][NextUncover]_vars

(***************************************************************************)
(* Feeders of every source, the capture relay among them, on two urls.     *)
(***************************************************************************)
RelabelSources == StoreSources \cup {"Proxy"}

NextRelabel ==
    \E url \in StoreUrls, source \in RelabelSources, method \in Methods :
        FeedAsset(url, source, method, FALSE, source = "Workbench")

SpecRelabel == Init /\ [][NextRelabel]_vars

(***************************************************************************)
(* An asset staged again and again, to the asset list and to the           *)
(* Workbench, recursive or not, with the clock moving inside the cache     *)
(* window.                                                                 *)
(***************************************************************************)
CacheSteps == {3}

NextCached ==
    \/ \E recursive \in BOOLEAN :
          ImportAdd(WorkbenchRoot, "GET", "Import", recursive, FALSE, FALSE)
    \/ \E recursive \in BOOLEAN :
          ImportAdd(WorkbenchRoot, "GET", "Workbench", recursive, TRUE, FALSE)
    \/ \E t \in DOMAIN tasks : ImportWorkbench(t) \/ ImportTask(t)
    \/ \E minutes \in CacheSteps : Elapse(minutes)

SpecCached == Init /\ [][NextCached]_vars

(***************************************************************************)
(* The purge of discovered assets.  It reads the authorized domains under  *)
(* one hold of the connection lock and selects and deletes under a second, *)
(* so that other store calls run in between.                               *)
(***************************************************************************)
PurgeRead ==
    /\ FreeSlots # {}
    /\ tasks' = Spawn(tasks, [kind |-> "purge", pc |-> "select",
                              authorized_domains |-> get_authorized_domains(assets)])
    /\ last' = Quiet
    /\ UNCHANGED <<assets, history, settings, now, monitor, emitted, trip, probe, proxy, limiter>>

PurgeDelete(t, foreign_keys) ==
    LET f   == tasks[t]
        res == purge_recursive_assets(assets, history, f.authorized_domains, foreign_keys)
    IN  /\ t \in DOMAIN tasks
        /\ f.kind = "purge" /\ f.pc = "select"
        /\ assets' = res.assets
        /\ history' = res.history
        /\ tasks' = Finish(tasks, t)
        /\ last' = [op |-> "purge_recursive_assets",
                    authorized_domains |-> f.authorized_domains,
                    before |-> assets, ret |-> res.ret]
        /\ UNCHANGED <<settings, now, monitor, emitted, trip, probe, proxy, limiter>>

PurgeUrls == {"https://acme.com/p3", "https://api.acme.com/p4", "localhost/p5",
              "mailto:ops@acme.com"}

NextPurge ==
    \/ \E url \in PurgeUrls, source \in ProbeSources :
          /\ Unstored(url)
          /\ NextRowId(assets) <= MaxRows
          /\ FeedAsset(url, source, NoMethod, FALSE, FALSE)
    \/ \E id \in DOMAIN assets, foreign_keys \in BOOLEAN : DeleteAsset(id, foreign_keys)
    \/ \E id \in DOMAIN assets, new_source \in ProbeSources : SetSource(id, new_source)
    \/ tasks = <<>> /\ PurgeRead
    \/ \E t \in DOMAIN tasks, foreign_keys \in BOOLEAN : PurgeDelete(t, foreign_keys)

SpecPurge == Init /\ [][NextPurge]_vars

(***************************************************************************)
(* The capture relay with interception: connections, the operator's flag   *)
(* and the two commands that resolve a pending request.                    *)
(***************************************************************************)
\* pending.get(&request_id): a lookup that leaves the entry in the map
get(pending, request_id) ==
    [pending |-> pending,
     tx |-> IF request_id \in DOMAIN pending THEN <<pending[request_id]>> ELSE <<>>]

\* pending.remove(&request_id)
remove(pending, request_id) ==
    [pending |-> [k \in DOMAIN pending \ {request_id} |-> pending[k]],
     tx |-> IF request_id \in DOMAIN pending THEN <<pending[request_id]>> ELSE <<>>]

\* if let Some(tx) = pending.remove(&request_id) { tx.send(action); Ok(()) }
\* else { Err(..) }, under the lock of pending_requests
TakeAndSend(P, request_id, action) ==
    LET r == remove(P.pending_requests, request_id)
    IN  IF r.tx # <<>>
        THEN [proxy |-> [P EXCEPT !.pending_requests = r.pending,
                                  !.connections[r.tx[1]].rx = Append(@, action)],
              ret |-> Ok(0)]
        ELSE [proxy |-> [P EXCEPT !.pending_requests = r.pending],
              ret |-> Err("Request ID not found or already processed")]

forward_intercepted_request(P, request_id, headers) ==
    TakeAndSend(P, request_id, [kind |-> "Forward", headers |-> headers])

drop_intercepted_request(P, request_id) ==
    TakeAndSend(P, request_id, [kind |-> "Drop"])

\* uuid::Uuid::new_v4(): an id no earlier request has
new_v4(P) ==
    1 + Cardinality({c \in DOMAIN P.connections : P.connections[c].request_id # NoRequest})

ProxyUrl == "http://api.com"

RelayMethods == {"GET", "CONNECT"}

RelayHeaders == {"x-edited: 1"}

\* ProxyService::set_intercept
SetIntercept(enabled) ==
    /\ proxy.intercept_enabled # enabled
    /\ proxy' = [proxy EXCEPT !.intercept_enabled = enabled]
    /\ last' = Quiet
    /\ UNCHANGED <<assets, history, settings, now, monitor, tasks, emitted, trip, probe,
                   limiter>>

\* handle_proxy_connection up to the read of the body: a CONNECT is
\* tunnelled at once, any other request is stored as a Proxy asset
ProxyAccept(method) ==
    LET res   == add_asset(assets, ProxyUrl, "Proxy", method, FALSE, FALSE, 0, now)
        frame == [method |-> method, request_id |-> NoRequest, rx |-> <<>>,
                  final_headers |-> "host: api.com"]
    IN  /\ Len(proxy.connections) < MaxRequests
        /\ IF method = "CONNECT"
           THEN /\ proxy' = [proxy EXCEPT !.connections =
                                Append(@, frame @@ [pc |-> "tunnel", relayed |-> TRUE,
                                                    answer |-> 200])]
                /\ last' = Quiet
                /\ UNCHANGED assets
           ELSE /\ proxy' = [proxy EXCEPT !.connections =
                                Append(@, frame @@ [pc |-> "loaded", relayed |-> FALSE,
                                                    answer |-> 0])]
                /\ assets' = res.assets
                /\ last' = AddCall("proxy", ProxyUrl, "Proxy", method, FALSE, FALSE, 0, res)
        /\ UNCHANGED <<history, settings, now, monitor, tasks, emitted, trip, probe, limiter>>

\* if intercept_enabled.load(..) { pending.insert(request_id, tx); emit(..) }
ProxyIntercept(c) ==
    LET f          == proxy.connections[c]
        request_id == new_v4(proxy)
    IN  /\ c \in DOMAIN proxy.connections
        /\ f.pc = "loaded"
        /\ proxy' = IF proxy.intercept_enabled
                    THEN [proxy EXCEPT
                            !.pending_requests = @ @@ (request_id :> c),
                            !.connections[c] = [@ EXCEPT !.pc = "wait",
                                                         !.request_id = request_id]]
                    ELSE [proxy EXCEPT !.connections[c].pc = "send"]
        /\ last' = Quiet
        /\ UNCHANGED <<assets, history, settings, now, monitor, tasks, emitted, trip, probe,
                       limiter>>

\* match rx.await: Forward goes on to the upstream request with the
\* operator's headers, Drop writes the 403 and returns.  The sender lives in
\* pending_requests until a command takes it, so the Err(_) arm is not taken.
ProxyReceive(c) ==
    LET f == proxy.connections[c]
    IN  /\ c \in DOMAIN proxy.connections
        /\ f.pc = "wait"
        /\ f.rx # <<>>
        /\ proxy' = IF Head(f.rx).kind = "Forward"
                    THEN [proxy EXCEPT !.connections[c] =
                            [@ EXCEPT !.pc = "send", !.final_headers = Head(f.rx).headers]]
                    ELSE [proxy EXCEPT !.connections[c] =
                            [@ EXCEPT !.pc = "closed", !.answer = 403]]
        /\ last' = Quiet
        /\ UNCHANGED <<assets, history, settings, now, monitor, tasks, emitted, trip, probe,
                       limiter>>

\* rb.send().await and the answer written back: the upstream's, or 502
ProxySend(c, reached) ==
    LET f == proxy.connections[c]
    IN  /\ c \in DOMAIN proxy.connections
        /\ f.pc = "send"
        /\ proxy' = [proxy EXCEPT !.connections[c] =
                        [@ EXCEPT !.pc = "closed", !.relayed = TRUE,
                                  !.answer = IF reached THEN 200 ELSE 502]]
        /\ last' = Quiet
        /\ UNCHANGED <<assets, history, settings, now, monitor, tasks, emitted, trip, probe,
                       limiter>>

ForwardInterceptedRequest(request_id, headers) ==
    LET res == forward_intercepted_request(proxy, request_id, headers)
    IN  /\ proxy' = res.proxy
        /\ last' = [op |-> "forward_intercepted_request", request_id |-> request_id,
                    action |-> [kind |-> "Forward", headers |-> headers],
                    before |-> proxy, ret |-> res.ret]
        /\ UNCHANGED <<assets, history, settings, now, monitor, tasks, emitted, trip, probe,
                       limiter>>

DropInterceptedRequest(request_id) ==
    LET res == drop_intercepted_request(proxy, request_id)
    IN  /\ proxy' = res.proxy
        /\ last' = [op |-> "drop_intercepted_request", request_id |-> request_id,
                    action |-> [kind |-> "Drop"],
                    before |-> proxy, ret |-> res.ret]
        /\ UNCHANGED <<assets, history, settings, now, monitor, tasks, emitted, trip, probe,
                       limiter>>

NextRelay ==
    \/ \E enabled \in BOOLEAN : SetIntercept(enabled)
    \/ \E method \in RelayMethods : ProxyAccept(method)
    \/ \E c \in DOMAIN proxy.connections : ProxyIntercept(c)
    \/ \E c \in DOMAIN proxy.connections : ProxyReceive(c)
    \/ \E c \in DOMAIN proxy.connections, reached \in BOOLEAN : ProxySend(c, reached)
    \/ \E request_id \in 1..MaxRequests, headers \in RelayHeaders :
          ForwardInterceptedRequest(request_id, headers)
    \/ \E request_id \in 1..MaxRequests : DropInterceptedRequest(request_id)

SpecRelay == Init /\ [][NextRelay]_vars

(***************************************************************************)
(* The rate limiter under any number of calls of wait().                   *)
(***************************************************************************)
SpecLimiter == Init /\ [][NextLimiter]_vars

(***************************************************************************)
(* scan_url up to its request, on the three scan paths.  A task is the     *)
(* spawned future of one path; it holds a handle on a rate limiter, calls  *)
(* wait() on it and issues its request when wait() has returned.  The      *)
(* code between the return of wait() and send() has no await, so the clock *)
(* stands still while a task is there.                                     *)
(***************************************************************************)
ScanPaths == {"monitor", "rescan", "import"}

\* SqliteDatabase::new builds the one RateLimiter of the program behind an Arc
SqliteDatabase == [rate_limiter |-> "Arc0"]

\* a clone that builds a limiter of its own
clone_apart(db) == [rate_limiter |-> "Arc1"]

\* Clone for SqliteDatabase: rate_limiter.clone() is another handle on the
\* same limiter
clone(db) == [rate_limiter |-> db.rate_limiter]

\* ScanService::new moves db.rate_limiter into the service
ScanService(db) == [rate_limiter |-> db.rate_limiter]

\* the limiter a path hands to scan_url: rescan_asset passes
\* &db_state.rate_limiter, the monitor task and the import task build a
\* ScanService from db_state.inner().clone()
LimiterOf(path) ==
    IF path = "rescan"
    THEN SqliteDatabase.rate_limiter
    ELSE ScanService(clone(SqliteDatabase)).rate_limiter

\* tasks back from wait() that have not issued their request yet
Running ==
    {c \in DOMAIN tasks : tasks[c].pc = "wait" /\ limiter.caller[c].pc = "idle"}

\* the task of a path is spawned and runs to scan_url's call of wait()
ScanUrlCalled(c, path) ==
    /\ c \notin DOMAIN tasks
    /\ limiter.caller[c].pc = "idle"
    /\ tasks' = tasks @@ (c :> [kind |-> path, pc |-> "wait", via |-> LimiterOf(path)])
    /\ limiter' = [limiter EXCEPT !.caller[c] = [pc |-> "lock"]]
    /\ UNCHANGED <<assets, history, settings, now, monitor, emitted, last, trip, probe, proxy>>

\* wait() has returned: client.request(method_type, url).send() is issued
ScanUrlSend(c) ==
    /\ c \in Running
    /\ tasks' = [tasks EXCEPT ![c].pc = "send"]
    /\ last' = [op |-> "request", caller |-> c, path |-> tasks[c].kind,
                via |-> tasks[c].via, instant |-> limiter.clock,
                returned |-> limiter.returned[2],
                previous |-> IF last.op = "request" THEN last.instant ELSE NoInstant]
    /\ UNCHANGED <<assets, history, settings, now, monitor, emitted, trip, probe, proxy, limiter>>

\* send().await completes, with a response or a transport error
ScanUrlResponded(c) ==
    /\ c \in DOMAIN tasks
    /\ tasks[c].pc = "send"
    /\ tasks' = [t \in DOMAIN tasks \ {c} |-> tasks[t]]
    /\ UNCHANGED <<assets, history, settings, now, monitor, emitted, last, trip, probe, proxy,
                   limiter>>

NextPaced ==
    \/ \E c \in Callers, path \in ScanPaths : ScanUrlCalled(c, path)
    \/ \E c \in Callers : WaitLocked(c)
    \/ \E c \in Callers : WaitWoken(c)
    \/ \E c \in Callers : ScanUrlSend(c)
    \/ \E c \in Callers : ScanUrlResponded(c)
    \/ Running = {} /\ ClockTick

SpecPaced == Init /\ [][NextPaced]_vars

(***************************************************************************)
(* Properties.                                                             *)
(***************************************************************************)
\* a host that equals a deny-list entry or is a subdomain of one
DenyListed(host) == \E d \in blacklist : host = d \/ EndsWith(host, "." \o d)

DiscoveryCallers == {"monitor", "import"}

\* C1: recursive discovery, from the monitor or from the staged import,
\* never inserts a url whose host equals or is a subdomain of a deny-list
\* entry, whatever the authorized set holds.
DenyListedNeverInserted ==
    /\ last.op = "add_asset" /\ last.caller \in DiscoveryCallers => ~DenyListed(last.host)
    /\ last.op = "skip" => assets = last.before
    /\ \A i \in DOMAIN assets :
          assets[i].source = "Recursive" => ~DenyListed(host_str(assets[i].url))

\* discovery has turned down a deny-listed host that the authorized set covers
DenyListedRejected ==
    /\ last.op = "skip"
    /\ last.caller \in DiscoveryCallers
    /\ DenyListed(last.host)
    /\ is_authorized(last.host, last.authorized)

\* the Scope Guard rules in order
ScopeGuardRules(host, authorized) ==
    /\ ~DenyListed(host)
    /\ \E d \in authorized : host = d \/ EndsWith(host, "." \o d)

NonRecursiveHosts ==
    {host_str(assets[i].url) : i \in {j \in DOMAIN assets : assets[j].source # "Recursive"}}

\* C2: the decision the monitor makes on a discovered host equals the Scope
\* Guard rules: reject a host that equals or is a subdomain of a deny-list
\* entry, otherwise admit exactly a host that equals or is a dot-suffixed
\* subdomain of the host of some asset that is not Recursive.
DecisionFollowsScopeGuard ==
    probe.stage = "decided" =>
        probe.admitted = ScopeGuardRules(probe.host, NonRecursiveHosts)

\* C3: a row discovery inserts at depth 3 has recursive = false, and the
\* monitor never derives children from a row at depth 3.
DepthCeilingStopsDiscovery ==
    /\ \A i \in DOMAIN assets :
          assets[i].source = "Recursive" /\ assets[i].depth = DepthLimit
              => ~assets[i].recursive
    /\ \A t \in DOMAIN tasks :
          tasks[t].kind = "monitor" /\ tasks[t].pc \in {"domains", "discover"}
              => tasks[t].depth # DepthLimit

\* C4: a row discovery creates has its parent's depth + 1, and no row has a
\* depth greater than 3.
DepthGrowsByOneUpToLimit ==
    /\ last.op = "add_asset" /\ last.caller \in DiscoveryCallers =>
          \A i \in DOMAIN assets \ DOMAIN last.before :
              assets[i].depth = last.parent_depth + 1
    /\ \A i \in DOMAIN assets : assets[i].depth <= DepthLimit

\* the weights of the findings not marked false positive
NonFalsePositiveWeight(findings) ==
    SumWeights(SelectSeq(findings, LAMBDA f : ~f.is_fp))

\* C5: in every state of the store each asset's risk_score is the sum of the
\* weights of its findings with is_fp = false, across scans, toggles and
\* their interleavings.
RiskScoreIsNonFalsePositiveSum ==
    \A i \in DOMAIN assets :
        assets[i].risk_score = NonFalsePositiveWeight(assets[i].findings)

\* C6: update_scan_result on a row whose prior state is non-trivial appends
\* exactly one history entry holding the prior status_code, risk_score,
\* findings, headers and body, and leaves the live fields at the new scan's
\* values; on a row whose prior state is trivial it appends nothing.
HistoryKeepsPriorState ==
    last.op = "update_scan_result" /\ last.id \in DOMAIN last.before =>
        LET old == last.before[last.id]
            row == assets[last.id]
            r   == last.result
        IN  /\ row.status = r.status
            /\ row.status_code = r.status_code
            /\ row.risk_score = r.risk_score
            /\ row.findings = r.findings
            /\ row.response_headers = r.response_headers
            /\ row.response_body = r.response_body
            /\ IF old.status_code # 0 \/ old.response_body # ""
               THEN /\ Len(history) = Len(last.hbefore) + 1
                    /\ SubSeq(history, 1, Len(last.hbefore)) = last.hbefore
                    /\ LET e == history[Len(history)]
                       IN  /\ e.asset_id = last.id
                           /\ e.status_code = old.status_code
                           /\ e.risk_score = old.risk_score
                           /\ e.findings = old.findings
                           /\ e.response_headers = old.response_headers
                           /\ e.response_body = old.response_body
               ELSE history = last.hbefore

\* a rescan has overwritten a row that held a response with findings
RescanArchived ==
    /\ last.op = "update_scan_result"
    /\ last.id \in DOMAIN last.before
    /\ last.before[last.id].status_code # 0
    /\ last.before[last.id].findings # <<>>
    /\ Len(history) = Len(last.hbefore) + 1

\* rows holding a url, and the row a finished add_asset call addressed
RowsWithUrl(A, url) == {i \in DOMAIN A : A[i].url = url}
AddedPair == RowsOf(assets, last.url, last.method_val)
PriorPair == RowsOf(last.before, last.url, last.method_val)

\* C7: add_asset twice with one (url, method) returns one id and keeps one
\* row for the pair; add_asset with the same url and another method succeeds
\* with a distinct id and the url then has two rows.
IdempotentInsertDistinctMethods ==
    last.op = "add_asset" =>
        /\ PriorPair # {} =>
              /\ last.ret.ok
              /\ PriorPair = {last.ret.value}
              /\ AddedPair = PriorPair
        /\ PriorPair = {} /\ RowsWithUrl(last.before, last.url) = {} =>
              /\ last.ret.ok
              /\ AddedPair = {last.ret.value}
        /\ PriorPair = {} /\ RowsWithUrl(last.before, last.url) # {} =>
              /\ last.ret.ok
              /\ last.ret.value \notin RowsWithUrl(last.before, last.url)
              /\ Cardinality(RowsWithUrl(assets, last.url)) = 2

\* C8: add_asset never turns a stored source that is not Recursive into
\* Recursive, and with source Import or Workbench on a Recursive row it
\* relabels the row, returns the existing id and keeps one row.
SourceNeverDemoted ==
    last.op = "add_asset" =>
        /\ \A i \in DOMAIN last.before :
              last.before[i].source # "Recursive" =>
                  i \in DOMAIN assets /\ assets[i].source # "Recursive"
        /\ \A i \in PriorPair :
              last.before[i].source = "Recursive" /\ last.source \in {"Import", "Workbench"} =>
                  /\ assets[i].source = last.source
                  /\ last.ret = Ok(i)
                  /\ AddedPair = {i}

\* an add_asset call with source Recursive has addressed a row labelled Import
DemotionAttempted ==
    /\ last.op = "add_asset"
    /\ last.source = "Recursive"
    /\ \E i \in PriorPair : last.before[i].source = "Import" /\ assets[i].source = "Import"

\* C9: add_asset with recursive = true raises a false flag of the existing
\* row and returns its id; no add_asset call clears a flag that is set.
RecursiveFlagOnlyRises ==
    last.op = "add_asset" =>
        /\ \A i \in PriorPair :
              last.recursive /\ ~last.before[i].recursive =>
                  assets[i].recursive /\ last.ret = Ok(i)
        /\ \A i \in DOMAIN last.before :
              last.before[i].recursive => i \in DOMAIN assets /\ assets[i].recursive

\* an add_asset call with recursive = false has addressed a row whose flag is set
ClearAttempted ==
    /\ last.op = "add_asset"
    /\ ~last.recursive
    /\ \E i \in PriorPair : last.before[i].recursive /\ assets[i].recursive

SoleCritical(findings) == Len(findings) = 1 /\ findings[1].severity = "Critical"

\* C10: marking a finding false positive and unmarking it restores the
\* risk_score and status the asset had; for an asset whose only finding is
\* one Critical finding the marked state is 0 / Safe and the restored state
\* is 100 / Critical.
FalsePositiveRoundTrip ==
    /\ trip.stage = 2 =>
          LET row == assets[trip.id]
          IN  SoleCritical(row.findings) => row.risk_score = 0 /\ row.status = "Safe"
    /\ trip.stage = 4 =>
          LET row == assets[trip.id]
          IN  /\ row.risk_score = trip.risk_score
              /\ row.status = trip.status
              /\ SoleCritical(row.findings) =>
                     row.risk_score = 100 /\ row.status = "Critical"

\* the sole Critical finding of an asset has been marked and unmarked
RoundTripCompleted ==
    /\ trip.stage = 4
    /\ SoleCritical(assets[trip.id].findings)
    /\ ~assets[trip.id].findings[1].is_fp

\* the findings of the row a finished update_finding_fp call addressed that
\* carry the pair it named
NamedBefore ==
    {i \in 1..Len(last.before[last.id].findings) :
        /\ last.before[last.id].findings[i].short = last.short
        /\ last.before[last.id].findings[i].evidence = last.evidence}

\* C11: a toggle whose (short name, evidence) pair matches no finding of the
\* asset returns the Not-Found failure, leaves the row as it was, updated_at
\* included, and is followed by no rescoring.
MissedToggleChangesNothing ==
    last.op = "update_finding_fp" /\ last.id \in DOMAIN last.before /\ NamedBefore = {} =>
        /\ last.ret = Err("NotFound")
        /\ assets[last.id] = last.before[last.id]
        /\ MainThread \notin DOMAIN tasks

\* a toggle has missed on a scanned asset some minutes after its last write
ToggleMissed ==
    /\ last.op = "update_finding_fp"
    /\ last.id \in DOMAIN last.before
    /\ NamedBefore = {}
    /\ last.before[last.id].findings # <<>>
    /\ last.before[last.id].updated_at < now

\* callers between the grant of the guard and the write of the last-call time
InsideGuard == {c \in Callers : limiter.caller[c].pc = "sleep"}

\* C12: two consecutive returns of wait() are never less than min_interval
\* apart, whatever the interleaving of the callers, and at most one caller
\* at a time is between acquiring the lock and updating the last-call time.
WaitReturnsSpaced ==
    /\ limiter.returned[1] # NoInstant =>
           limiter.returned[2] - limiter.returned[1] >= MinInterval
    /\ Cardinality(InsideGuard) <= 1
    /\ InsideGuard # {} => InsideGuard = {limiter.holder}

\* one caller has returned from its sleep while another waited for the lock,
\* and that one has returned in its turn
SleeperThenWaiterReturned ==
    /\ limiter.returned[1] # NoInstant
    /\ limiter.returned[2] - limiter.returned[1] = MinInterval
    /\ limiter.returned[1] > 0

\* C13: a scan whose request fails in transport returns Connection Failed,
\* status_code 0, risk_score 0, no findings and no discovered urls; the
\* monitor persists that result and derives no children from it.
FailedScanIsBare ==
    last.op = "update_scan_result" /\ last.outcome = "fail" =>
        /\ last.result.status = "Connection Failed"
        /\ last.result.status_code = 0
        /\ last.result.risk_score = 0
        /\ last.result.findings = <<>>
        /\ last.result.discovered_urls = <<>>
        /\ last.caller = "monitor" =>
              /\ assets[last.id].status = "Connection Failed"
              /\ assets[last.id].status_code = 0
              /\ assets[last.id].risk_score = 0
              /\ assets[last.id].findings = <<>>
              /\ DOMAIN assets = DOMAIN last.before
              /\ last.task \in DOMAIN tasks => tasks[last.task].discovered_urls = <<>>

\* the monitor has persisted a failed scan of a recursive root and goes on
\* to the discovery loop
FailedScanOfRecursiveRoot ==
    /\ last.op = "update_scan_result"
    /\ last.outcome = "fail"
    /\ last.caller = "monitor"
    /\ last.before[last.id].recursive
    /\ last.task \in DOMAIN tasks

DerivedStatuses == {"Critical", "Warning", "Suspicious", "Safe"}

\* the threshold mapping of a score
ThresholdStatus(score) ==
    CASE score >= 100 -> "Critical"
      [] score >= 50 /\ score < 100 -> "Warning"
      [] score > 0 /\ score < 50 -> "Suspicious"
      [] OTHER -> "Safe"

\* C14: a status written together with a score, by a successful scan or by
\* a false-positive recalculation, is the threshold mapping of that score
\* (>= 100 Critical, >= 50 Warning, > 0 Suspicious, otherwise Safe), so a
\* stored status among those four always agrees with the stored risk_score.
StatusIsThresholdOfScore ==
    /\ \A i \in DOMAIN assets :
          assets[i].status \in DerivedStatuses =>
              assets[i].status = ThresholdStatus(assets[i].risk_score)
    /\ last.op = "update_scan_result" /\ last.outcome = "ok" =>
          /\ last.result.status = ThresholdStatus(last.result.risk_score)
          /\ assets[last.id].status = ThresholdStatus(assets[last.id].risk_score)
    /\ last.op = "recalculate_asset_risk_score" /\ last.ret.ok =>
          assets[last.id].status = ThresholdStatus(assets[last.id].risk_score)

\* a recalculation has left a High + Medium asset (75, Warning) with its
\* Medium finding alone
RecalculatedToSuspicious ==
    /\ last.op = "recalculate_asset_risk_score"
    /\ last.ret.ok
    /\ last.before[last.id].risk_score = 75
    /\ last.before[last.id].status = "Warning"
    /\ assets[last.id].risk_score = 25
    /\ assets[last.id].status = "Suspicious"

\* C15: the monitor inserts discovered urls as children of an asset only if
\* the asset's recursive flag is set, its source is not Workbench, and the
\* recursive-discovery setting was 'true' at the tick that selected it or
\* its source is Recursive; with the setting off an asset of another source
\* gets no children.
ChildrenNeedSettingOrRecursiveSource ==
    last.op = "add_asset" /\ last.caller = "monitor" =>
        /\ last.seed.recursive
        /\ last.seed.source # "Workbench"
        /\ last.seed.recursive_enabled \/ last.seed.source = "Recursive"

\* C16: with the recursive-discovery setting disabled, the monitor still
\* takes the discovered urls of an asset whose source is Recursive and whose
\* recursive flag is set into its discovery loop.
GrandfatheredChainContinues ==
    /\ last.op = "update_scan_result"
    /\ last.caller = "monitor"
    /\ last.seed.source = "Recursive"
    /\ last.seed.recursive
    /\ ~last.seed.recursive_enabled
    /\ last.result.discovered_urls # <<>>
    => /\ last.task \in DOMAIN tasks
       /\ tasks[last.task].pc = "domains"
       /\ tasks[last.task].discovered_urls = last.result.discovered_urls

\* C17: recursive discovery, by the monitor or by the import, never derives
\* children from an asset whose source is Workbench or whose is_workbench
\* flag is set, whatever its recursive flag and whoever re-added it, and
\* never sets is_workbench on any asset.
WorkbenchNeverSeedsDiscovery ==
    last.op = "add_asset" /\ last.caller \in DiscoveryCallers =>
        /\ last.before[last.parent].source # "Workbench"
        /\ ~last.before[last.parent].is_workbench
        /\ \A i \in DOMAIN assets :
              assets[i].is_workbench =>
                  i \in DOMAIN last.before /\ last.before[i].is_workbench

\* the assets a poll tick has spawned a scan task for
SpawnedByTick == {tasks'[t].id : t \in DOMAIN tasks' \ DOMAIN tasks}

\* C18: a poll tick selects at most 10 assets, and what it selects from is
\* every Pending asset plus every asset whose updated_at is older than the
\* 5-minute staleness window, so a scanned asset is selected again once it
\* is stale.
TickSelectsPendingAndStale ==
    [][monitor.pc = "fetch" /\ monitor'.pc = "sleep" =>
          /\ Cardinality(SpawnedByTick) <= BatchLimit
          /\ SpawnedByTick = get_stale_assets(assets, BatchLimit, StaleMinutes, now)]_vars

\* C19: every scan task the scheduler spawns emits "scan-update" for its
\* asset id, whatever the scan outcome, the asset's source and recursive flag,
\* and the recursive-discovery setting: a task that has run to its end has
\* emitted the notification by then.
CompletedTaskHasEmitted ==
    [][\A t \in DOMAIN tasks :
          (tasks[t].kind = "monitor" /\ t \notin DOMAIN tasks') =>
              tasks[t].id \in emitted']_vars

\* another parent's task in flight still holds url among its discovered urls
HeldByOtherParent(url, parent) ==
    \E t \in DOMAIN tasks :
        /\ tasks[t].kind = "monitor" /\ tasks[t].pc \in {"domains", "discover"}
        /\ tasks[t].id # parent
        /\ \E k \in DOMAIN tasks[t].discovered_urls : tasks[t].discovered_urls[k] = url

\* a discovery add_asset call for a url that a second parent discovered too
ConcurrentDiscovery ==
    /\ last.op = "add_asset" /\ last.caller = "monitor"
    /\ HeldByOtherParent(last.url, last.parent)

\* C20: when two parent scan tasks running side by side discover the same
\* url, each add_asset call succeeds and returns the id of the one row the
\* store holds for that (url, method), in whichever order the calls run.
ConcurrentDiscoveryOneRow ==
    ConcurrentDiscovery =>
        /\ last.ret.ok
        /\ Cardinality(RowsOf(assets, last.url, last.method_val)) = 1
        /\ last.ret.value \in RowsOf(assets, last.url, last.method_val)

\* the store calls other than the toggle's own flag update
OtherStoreCalls == {"add_asset", "update_scan_result", "recalculate_asset_risk_score"}

\* C21: the toggle's flag update and its rescoring run under one hold of the
\* store lock: while a toggle is between the two, no other store operation
\* (a scan's update_scan_result, an insert, another toggle) completes.
ToggleHoldsLockThroughout ==
    ToggleInFlight => last.op \notin OtherStoreCalls

\* the history entry that holds the archived fields of row old of asset id
HoldsPriorState(e, id, old) ==
    /\ e.asset_id = id
    /\ e.status_code = old.status_code
    /\ e.risk_score = old.risk_score
    /\ e.findings = old.findings
    /\ e.response_headers = old.response_headers
    /\ e.response_body = old.response_body

NonRecursiveRowHosts(A) ==
    {host_str(A[i].url) : i \in {j \in DOMAIN A : A[j].source # "Recursive"}}

StoreFailureKeepsLoopRunning ==
    /\ monitor.pc \in {"sleep", "fetch"}
    /\ last.op = "get_pending_scans" /\ ~last.ret.ok =>
          monitor.pc = "sleep" /\ tasks = last.tasks_before
    /\ last.op = "update_scan_result" /\ "ret" \in DOMAIN last /\ ~last.ret.ok =>
          /\ monitor = last.monitor_before
          /\ tasks = Finish(last.tasks_before, last.task)
          /\ emitted = last.emitted_before \cup {last.id}

\* one task of a batch of two could not persist its result, the other is
\* still in flight
BatchMateOfFailedTask ==
    /\ last.op = "update_scan_result" /\ "ret" \in DOMAIN last /\ ~last.ret.ok
    /\ \E t \in DOMAIN tasks : tasks[t].kind = "monitor" /\ tasks[t].id # last.id

\* the assets whose last scan failed to connect and that are stale by now
StaleFailures ==
    {i \in DOMAIN assets : /\ assets[i].status = "Connection Failed"
                           /\ assets[i].updated_at + StaleMinutes < now}

\* C25: an asset whose scan ended in "Connection Failed" is selected again
\* by the scheduler once it is stale, with no operator action: a poll tick
\* that finds such an asset starts a scan task for it.
StaleFailureIsReselected ==
    [][monitor.pc = "fetch" /\ monitor'.pc = "sleep" =>
          StaleFailures \subseteq SpawnedByTick]_vars

\* rows a and b agree on every column outside cols
SameOutside(a, b, cols) == \A k \in DOMAIN a \ cols : a[k] = b[k]

\* findings F and G differ at most in is_fp and fp_reason of those that
\* match short_name and evidence
OnlyMatchedFlagged(F, G, short_name, evidence) ==
    /\ Len(F) = Len(G)
    /\ \A i \in 1..Len(F) :
          IF Matches(F[i], short_name, evidence)
          THEN SameOutside(F[i], G[i], {"is_fp", "fp_reason"})
          ELSE F[i] = G[i]

\* C26: a successful false-positive toggle changes only the matched
\* finding's is_fp and fp_reason and the asset's risk_score and status:
\* every other field of the asset, updated_at included, every other finding
\* and every other asset stay as they were, in both of its store calls.
ToggleTouchesOnlyFlagAndScore ==
    /\ last.op = "update_finding_fp" /\ last.ret.ok =>
          /\ \A i \in DOMAIN assets \ {last.id} : assets[i] = last.before[i]
          /\ SameOutside(last.before[last.id], assets[last.id], {"findings"})
          /\ OnlyMatchedFlagged(last.before[last.id].findings, assets[last.id].findings,
                                last.short, last.evidence)
    /\ last.op = "recalculate_asset_risk_score" /\ last.ret.ok =>
          /\ \A i \in DOMAIN assets \ {last.id} : assets[i] = last.before[i]
          /\ SameOutside(last.before[last.id], assets[last.id], {"risk_score", "status"})

\* the history rows of asset id
HistoryRowsOf(H, id) == {k \in DOMAIN H : H[k].asset_id = id}

\* R is what a read of asset id's history must give: at most HistoryLimit
\* rows of the asset as they are stored, newest first, none of the omitted
\* rows newer than a returned one
NewestFirstCapped(R, H, id) ==
    LET rows == HistoryRowsOf(H, id)
        ids  == {R[n].id : n \in DOMAIN R}
    IN  /\ Len(R) = Min(HistoryLimit, Cardinality(rows))
        /\ \A n \in DOMAIN R : R[n].id \in rows /\ R[n] = [id |-> R[n].id] @@ H[R[n].id]
        /\ \A n \in 1..(Len(R) - 1) : R[n].id > R[n + 1].id
        /\ \A k \in rows \ ids : \A j \in ids : k < j

\* the store calls of scans, toggles and triage edits
HistoryBystanders ==
    {"update_scan_result", "update_finding_fp", "recalculate_asset_risk_score",
     "update_asset_triage"}

\* C27: history is append-only and capped on read.  No call of a scan, a
\* toggle or a triage edit modifies or removes a stored history entry, and
\* get_asset_history returns at most 50 entries of the asset, the most
\* recently appended ones, newest first.
HistoryAppendOnlyCappedOnRead ==
    /\ last.op \in HistoryBystanders =>
          /\ Len(last.hbefore) <= Len(history)
          /\ SubSeq(history, 1, Len(last.hbefore)) = last.hbefore
    /\ \A id \in DOMAIN assets :
          LET read == get_asset_history(history, id)
          IN  NewestFirstCapped(read, history, id)

\* an asset has more history rows than a read returns
HistoryOutgrewLimit ==
    \E id \in DOMAIN assets :
        /\ Cardinality(HistoryRowsOf(history, id)) > HistoryLimit

MatchedTexts(body) ==
    {RegexMatch(Words(body)[i]) : i \in 1..Len(Words(body))} \ {NoMatch}

\* a matched text that ends with a static-asset extension, in any letter case
EndsWithStaticExtension(raw) ==
    \E ext \in noise_extensions : EndsWith(to_lowercase(raw), ext)

\* the URL a matched text stands for against the request URL
FullUrl(raw, base_url) ==
    IF StartsWith(raw, "/") THEN Join(base_url, raw) ELSE UrlToString(raw)

\* C29: for every response body and request URL, discovered_urls holds only
\* URLs of the request URL's host, each of them from a matched text that
\* does not end with a static-asset extension, without duplicates and in
\* sorted order; it is empty when the request URL does not parse.
DiscoveredUrlsSameHostSortedUnique ==
    probe.stage = "extracted" =>
        LET urls == probe.discovered_urls
        IN  /\ \A i \in 1..Len(urls) :
                   /\ host_str(urls[i]) = host_str(probe.base_url)
                   /\ \E raw \in MatchedTexts(probe.body) :
                          /\ ~EndsWithStaticExtension(raw)
                          /\ FullUrl(raw, probe.base_url) = urls[i]
            /\ \A raw \in MatchedTexts(probe.body) :
                   EndsWithStaticExtension(raw) =>
                       \A i \in 1..Len(urls) : urls[i] # FullUrl(raw, probe.base_url)
            /\ \A i, j \in 1..Len(urls) : i < j => StrLess(urls[i], urls[j])
            /\ host_str(probe.base_url) = NoHost => urls = <<>>

\* a body that names one page twice, absolutely and by path: the list
\* holds the page once
PageNamedTwiceListedOnce ==
    /\ probe.stage = "extracted"
    /\ probe.base_url = "https://acme.com/start"
    /\ MatchedTexts(probe.body) = {"https://acme.com/p1", "/p1"}
    /\ probe.discovered_urls = <<"https://acme.com/p1">>

\* the columns update_scan_result is to leave alone
OffScanAxis == {"triage_status", "notes", "source", "recursive", "is_workbench", "depth"}

\* C30: triage and scan state are independent axes: update_asset_triage
\* changes only triage_status and notes of its asset, and update_scan_result
\* leaves triage_status, notes, source, recursive, is_workbench and depth of
\* its asset as they were.
TriageAndScanIndependent ==
    /\ (last.op = "update_asset_triage" /\ last.id \in DOMAIN last.before) =>
           SameOutside(assets[last.id], last.before[last.id], {"triage_status", "notes"})
    /\ (last.op = "update_scan_result" /\ last.id \in DOMAIN last.before) =>
           \A k \in OffScanAxis : assets[last.id][k] = last.before[last.id][k]

\* C31: a scan result obtained by probing (url, method) is persisted only
\* onto the asset row of that pair: a scan that completes after its asset
\* was deleted changes no asset row and appends no history, and never
\* overwrites another asset created in the meantime.
ScanPersistsOnlyOnProbedAsset ==
    [][\A t \in DOMAIN tasks :
          (t \notin DOMAIN tasks' /\ (assets' # assets \/ history' # history)) =>
              /\ tasks[t].id \in DOMAIN assets
              /\ assets[tasks[t].id].url = tasks[t].url
              /\ assets[tasks[t].id].method = tasks[t].method]_vars

\* C32: the scheduler never has two scan tasks in flight for the same asset:
\* an asset selected on one tick whose scan is not yet persisted is not
\* selected again on a following tick.
OneMonitorTaskPerAsset ==
    \A t, u \in DOMAIN tasks :
        (t # u /\ tasks[t].kind = "monitor" /\ tasks[u].kind = "monitor") =>
            tasks[t].id # tasks[u].id

FeederColumns == {"source", "recursive", "is_workbench"}

\* C34: status Pending is only ever set when a row is created: no operation
\* takes an asset that is not Pending back to Pending, and add_asset on an
\* existing (url, method) leaves every column of the row but source,
\* recursive and is_workbench as it was.
PendingOnlyAtCreation ==
    [][/\ \A id \in DOMAIN assets' :
              assets'[id].status = "Pending" =>
                  (id \notin DOMAIN assets \/ assets[id].status = "Pending")
       /\ last'.op = "add_asset" =>
              \A id \in DOMAIN assets : SameOutside(assets'[id], assets[id], FeederColumns)]_vars

\* the capture relay has fed an asset again that was scanned some minutes
\* before, and the row has taken the new source
ScannedAssetFedAgain ==
    /\ last.op = "add_asset"
    /\ last.ret.ok
    /\ last.ret.value \in DOMAIN last.before
    /\ last.before[last.ret.value].status \notin {"Pending", "Connection Failed"}
    /\ last.before[last.ret.value].updated_at < now
    /\ last.before[last.ret.value].source # "Proxy"
    /\ assets[last.ret.value].source = "Proxy"

\* the findings of a list that are marked false positive
Marked(findings) == {k \in DOMAIN findings : findings[k].is_fp}

\* C35: a rescan replaces the findings of the asset wholesale with the fresh
\* detection output, none of it marked false positive; marks and reasons
\* set before the rescan stay only in the history snapshot, and the stored
\* risk_score is the weighted sum over all fresh findings.
RescanReplacesFindings ==
    (last.op = "update_scan_result" /\ last.id \in DOMAIN last.before) =>
        LET old   == last.before[last.id]
            fresh == assets[last.id].findings
        IN  /\ fresh = last.result.findings
            /\ \A k \in DOMAIN fresh :
                   ~fresh[k].is_fp /\ fresh[k].fp_reason = NoReason
            /\ assets[last.id].risk_score = SumWeights(fresh)
            /\ Marked(old.findings) # {} =>
                   /\ Len(history) = Len(last.hbefore) + 1
                   /\ history[Len(history)].asset_id = last.id
                   /\ history[Len(history)].findings = old.findings

\* an asset whose Critical finding was marked false positive has been
\* rescanned: the live row holds the finding unmarked and scores 100
MarkedFindingRescanned ==
    /\ last.op = "update_scan_result"
    /\ last.id \in DOMAIN last.before
    /\ Marked(last.before[last.id].findings) # {}
    /\ last.before[last.id].risk_score = 0
    /\ assets[last.id].risk_score = 100
    /\ Marked(history[Len(history)].findings) # {}

\* C36: in every reachable state each asset whose source is Recursive has a
\* host that equals, or is a dot-suffixed subdomain of, the host of some
\* asset whose source is not Recursive, also under deletes and source
\* changes beside the scheduler's discovery.
RecursiveAssetsStayCovered ==
    \A i \in DOMAIN assets :
        assets[i].source = "Recursive" =>
            \E j \in DOMAIN assets :
                /\ assets[j].source # "Recursive"
                /\ host_str(assets[j].url) # NoHost
                /\ \/ host_str(assets[i].url) = host_str(assets[j].url)
                   \/ EndsWith(host_str(assets[i].url), "." \o host_str(assets[j].url))

\* C37: add_asset with a source other than Recursive that differs from the
\* current source of the row it finds always replaces that source, whatever
\* it was: the last writer wins.
LastFeederNamesSource ==
    (/\ last.op = "add_asset"
     /\ last.ret.ok
     /\ last.ret.value \in DOMAIN last.before
     /\ last.source # "Recursive"
     /\ last.source # last.before[last.ret.value].source) =>
        assets[last.ret.value].source = last.source

\* the capture relay has seen a request for a Workbench asset, which is now
\* labelled Proxy
WorkbenchRelabelledProxy ==
    /\ last.op = "add_asset"
    /\ last.ret.ok
    /\ last.ret.value \in DOMAIN last.before
    /\ last.source = "Proxy"
    /\ last.before[last.ret.value].source = "Workbench"
    /\ assets[last.ret.value].source = "Proxy"
    /\ assets[last.ret.value].is_workbench

\* the columns update_scan_result writes
ScanColumns == {"status", "status_code", "risk_score", "findings",
                "response_headers", "response_body", "updated_at"}

\* asset id was scanned at most CacheMinutes ago
ScannedInWindow(id) ==
    /\ id \in DOMAIN assets
    /\ assets[id].status # "Pending"
    /\ assets[id].updated_at + CacheMinutes > now

\* staged-import task t takes the step
ImportMoves(t) == t \notin DOMAIN tasks' \/ tasks'[t] # tasks[t]

\* C38: a staged import of an asset scanned within the last CacheMinutes
\* minutes leaves the asset's scan columns, updated_at among them, and the
\* history as they were in every one of its steps (add_asset, the Workbench
\* mark, the cache check, the spawned task); the cache check emits the
\* notification at once, and the spawned task probes exactly when the staged
\* asset is recursive.
CachedImportKeepsScanFields ==
    [][/\ (/\ last'.op = "add_asset" /\ last'.caller = "stage" /\ last'.ret.ok
            /\ ScannedInWindow(last'.ret.value)) =>
              /\ \A c \in ScanColumns :
                    assets'[last'.ret.value][c] = assets[last'.ret.value][c]
              /\ history' = history
       /\ \A t \in DOMAIN tasks :
            (/\ tasks[t].kind = "import"
             /\ ImportMoves(t)
             /\ \/ tasks[t].pc \in {"workbench", "cache"} /\ ScannedInWindow(tasks[t].id)
                \/ tasks[t].pc = "scan" /\ tasks[t].cached_result) =>
                /\ tasks[t].id \in DOMAIN assets'
                /\ \A c \in ScanColumns :
                      assets'[tasks[t].id][c] = assets[tasks[t].id][c]
                /\ history' = history
                /\ tasks[t].pc = "cache" =>
                      tasks'[t].cached_result /\ tasks[t].id \in emitted'
                /\ tasks[t].pc = "scan" =>
                      (tasks[t].recursive <=>
                          t \in DOMAIN tasks' /\ tasks'[t].pc = "domains")]_vars

InterceptedResolvedOnce ==
    /\ \A c \in DOMAIN proxy.connections :
          LET f == proxy.connections[c]
          IN  /\ Len(f.rx) <= 1
              /\ f.rx # <<>> => f.request_id \notin DOMAIN proxy.pending_requests
              /\ (f.request_id # NoRequest /\ f.relayed) =>
                    f.rx # <<>> /\ f.rx[1].kind = "Forward"
              /\ (f.rx # <<>> /\ f.rx[1].kind = "Drop") =>
                    ~f.relayed /\ (f.pc = "closed" => f.answer = 403)
    /\ last.op \in {"forward_intercepted_request", "drop_intercepted_request"} =>
          IF last.request_id \in DOMAIN last.before.pending_requests
          THEN /\ last.ret.ok
               /\ last.request_id \notin DOMAIN proxy.pending_requests
               /\ proxy.connections[last.before.pending_requests[last.request_id]].rx
                     = <<last.action>>
          ELSE ~last.ret.ok /\ proxy = last.before

\* a forwarded request was relayed, and a drop for its id then returned the
\* error
DropAfterForwardRefused ==
    /\ last.op = "drop_intercepted_request"
    /\ ~last.ret.ok
    /\ \E c \in DOMAIN proxy.connections :
          /\ proxy.connections[c].request_id = last.request_id
          /\ proxy.connections[c].rx # <<>>
          /\ proxy.connections[c].rx[1].kind = "Forward"
          /\ proxy.connections[c].relayed

====
